---------------------------- MODULE Spec2Model ----------------------------
(***************************************************************************)
(* A model of the AI conversion orchestrator of convert-sheet-to-md        *)
(* (src/src/ai_converter.py, class AIConverter).                           *)
(*                                                                         *)
(* The parts of the class, and the web endpoint that runs it, are         *)
(* modelled each with a specification of its own over the same variables:  *)
(*   SpecPlanner  _calculate_batch_size, one action per branch of its loop *)
(*   SpecGen      the retry loop of _generate_and_save[_batch]             *)
(*   SpecParse    _parse_and_save_response, _parse_and_save_batch_response *)
(*                and _save_simple_markdown                                *)
(*   SpecCoord    convert and convert_file: the loops over the files, the   *)
(*                batches and the sheets of a failed batch                  *)
(*   SpecRerun    convert called twice on an unchanged directory            *)
(*   SpecWeb      POST /api/convert of web/app.py, with a key the           *)
(*                generation service rejects                                *)
(*   SpecEntry    the entries {file, error} and _friendly_error_message     *)
(*   SpecRows     the tables serialized into the prompts, cut at 5000 rows  *)
(*   SpecCalls    convert_file on one file together with the retry loops    *)
(*                of its generate calls                                     *)
(*                                                                         *)
(* Texts are modelled by what the code reads of them: a prompt or a sheet  *)
(* by its length in characters, an error message by the substrings the     *)
(* retry loop searches for, a file name by its characters.                 *)
(***************************************************************************)
EXTENDS Integers, Sequences, FiniteSets, TLC

VARIABLES
    \* ---- Batch Planner (_calculate_batch_size) ----
    sheets_data,        \* per sheet: len(sheet_str), the length of its text
    additional_prompt,  \* len(self.additional_prompt), 0 for the empty string
    max_tokens_per_batch,
    max_batch_size,
    idx,                \* the loop index of enumerate(sheets_data), 0-based
    batches,
    current_batch,
    current_tokens,
    planPc,             \* "idle" | "loop" | "done"
    \* ---- Generation Client (the retry loop of _generate_and_save[_batch]) ----
    template,           \* "single": _generate_and_save, "batch": _generate_and_save_batch
    attempt,            \* the loop variable of "for attempt in range(self.max_retries)"
    response,           \* <<>> for None, <<n>> for the response of API call n
    last_error,         \* <<>> for None, <<e>> for the exception e
    raised_error,       \* <<e>> once the function has raised e
    events,             \* history: the API calls and the sleeps, in order
    genPc,              \* "idle" | "loop" | "after_loop" | "raised" | "responded"
    \* ---- Response Parser and File Materializer ----
    parser,             \* "single": _parse_and_save_response, "batch": ..._batch_response
    response_text,      \* the raw text: [lex |-> its lexemes, val |-> its JSON fragment]
    base_name,          \* the characters of base_name
    batch_indices,      \* the sheet indices of the batch (batch parser)
    writes,             \* history: every file written, [path, content], in order
    returned,           \* the list of created file paths the parser returned
    parse_exc,          \* "none", or the exception the parser raised
    parsePc,            \* "idle" | "start" | "returned" | "raised"
    \* ---- Conversion Coordinator (convert, convert_file) ----
    input_path,         \* [isfile |-> TRUE, file] or [isfile |-> FALSE, entries]
    files_to_process,   \* the files convert iterates over
    file_idx,           \* the position of file_path in files_to_process, from 1
    all_files,          \* convert: the created files of the files done so far
    all_errors,         \* convert: its list `errors`
    batch_plan,         \* convert_file: `batches`, the planner's result
    batch_idx,          \* convert_file: the index of the batch, 0-based
    sheet_pos,          \* fallback: the position of sheet_idx in batch_indices
    created_files,      \* convert_file: the files created for file_path
    errors,             \* convert_file: the error entries for file_path
    coord_events,       \* history: the generate calls and the sleeps, in order
    coordPc,            \* "idle" | "start" | "file" | "batch" | "fallback" |
                        \* "file_done" | "returned" | "raised"
    \* ---- Web endpoint /api/convert (web/app.py) ----
    web_request,        \* [mode, api_key]: the JSON of the request and the key
                        \* it resolves to ("none", or "rejected": a key
                        \* the generation service does not accept)
    web_response,       \* <<>>, or <<[status, body]>> once the handler answered
    webPc,              \* "idle" | "request" | "converting" | "answered"
    \* ---- Error entries (_friendly_error_message) ----
    model_name,         \* self.model_name
    error_msg,          \* the raw message str(e), a sequence of words
    error_entry,        \* <<>>, or <<{file, error}>>: the entry made of it
    \* ---- Prompt building (the tables serialized into a prompt) ----
    dfs,                \* the tables read: per table [from, to], its data rows
    prompts,            \* history: per prompt built, the tables serialized in it
    rowsPc              \* "idle" | "csv" | "batch" | "fallback" | "done"

planVars == <<sheets_data, additional_prompt, max_tokens_per_batch,
              max_batch_size, idx, batches, current_batch, current_tokens,
              planPc>>

genVars == <<template, attempt, response, last_error, raised_error, events,
             genPc>>

parseVars == <<parser, response_text, base_name, batch_indices, writes,
               returned, parse_exc, parsePc>>

coordVars == <<input_path, files_to_process, file_idx, all_files, all_errors,
               batch_plan, batch_idx, sheet_pos, created_files, errors,
               coord_events, coordPc>>

webVars == <<web_request, web_response, webPc>>

entryVars == <<model_name, error_msg, error_entry>>

rowsVars == <<dfs, prompts, rowsPc>>

vars == <<planVars, genVars, parseVars, coordVars, webVars, entryVars,
          rowsVars>>

\* what the actions of one part leave alone
notPlanVars == <<genVars, parseVars, coordVars, webVars, entryVars, rowsVars>>
notGenVars == <<planVars, parseVars, coordVars, webVars, entryVars, rowsVars>>
notParseVars == <<planVars, genVars, coordVars, webVars, entryVars, rowsVars>>
notCoordVars == <<planVars, genVars, parseVars, webVars, entryVars, rowsVars>>
notWebVars == <<planVars, genVars, parseVars, entryVars, rowsVars>>
notEntryVars == <<planVars, genVars, parseVars, coordVars, webVars, rowsVars>>
notRowsVars == <<planVars, genVars, parseVars, coordVars, webVars, entryVars>>

\* The parts that a specification does not run stay as they are here.
PlannerIdle ==
    /\ sheets_data = <<>>
    /\ additional_prompt = 0
    /\ max_tokens_per_batch = 0
    /\ max_batch_size = 1
    /\ idx = 0
    /\ batches = <<>>
    /\ current_batch = <<>>
    /\ current_tokens = 0
    /\ planPc = "idle"

GenIdle ==
    /\ template = "single"
    /\ attempt = 0
    /\ response = <<>>
    /\ last_error = <<>>
    /\ raised_error = <<>>
    /\ events = <<>>
    /\ genPc = "idle"

ParseIdle ==
    /\ parser = "single"
    /\ response_text = [lex |-> <<>>, val |-> [t |-> "null"]]
    /\ base_name = <<"b">>
    /\ batch_indices = <<0>>
    /\ writes = <<>>
    /\ returned = <<>>
    /\ parse_exc = "none"
    /\ parsePc = "idle"

CoordIdle ==
    /\ input_path = [isfile |-> FALSE, entries |-> <<>>]
    /\ files_to_process = <<>>
    /\ file_idx = 0
    /\ all_files = <<>>
    /\ all_errors = <<>>
    /\ batch_plan = <<>>
    /\ batch_idx = 0
    /\ sheet_pos = 0
    /\ created_files = <<>>
    /\ errors = <<>>
    /\ coord_events = <<>>
    /\ coordPc = "idle"

WebIdle ==
    /\ web_request = [mode |-> "none", api_key |-> "none"]
    /\ web_response = <<>>
    /\ webPc = "idle"

EntryIdle ==
    /\ model_name = "gemini-2.5-flash"
    /\ error_msg = <<>>
    /\ error_entry = <<>>

RowsIdle ==
    /\ dfs = <<>>
    /\ prompts = <<>>
    /\ rowsPc = "idle"

-----------------------------------------------------------------------------
(* Bounds of the model *)

MaxSheets == 3
MaxSheetChars == 5
MaxBudget == 3
MaxBatchSize == 3
MaxAdditionalChars == 4
MaxRetryIn == 2
MaxFiles == 2
MaxUnits == 3
MaxDirEntries == 2
MaxUnitFiles == 1
MaxRerunUnits == 2
MaxMsgWords == 2
MaxRowsOff == 2
MaxCallSheets == 2

(* Program constants *)

\* self.avg_chars_per_token
avg_chars_per_token == 4

\* len(BATCH_SYSTEM_PROMPT), scaled down by the same factor as the budgets of
\* the model (max_tokens_per_batch ranges over 0..MaxBudget here, 800000 in
\* the source): the template is one estimated token long.
BATCH_SYSTEM_PROMPT == 4

\* self.max_retries
max_retries == 5

\* self.initial_retry_delay, in seconds
initial_retry_delay == 10

\* self.batch_delay, in seconds
batch_delay == 10

\* time.sleep(5) between the sheets of the per-sheet fallback, in seconds
sheet_delay == 5

-----------------------------------------------------------------------------
(* Helpers on sequences *)

RECURSIVE SumSeq(_)
SumSeq(s) == IF s = <<>> THEN 0 ELSE Head(s) + SumSeq(Tail(s))

RECURSIVE Flatten(_)
Flatten(ss) == IF ss = <<>> THEN <<>> ELSE Head(ss) \o Flatten(Tail(ss))

SeqsUpTo(S, n) == UNION {[1..k -> S] : k \in 0..n}

-----------------------------------------------------------------------------
(* Batch Planner *)

\* _estimate_tokens: len(text) // self.avg_chars_per_token
estimate_tokens(text) == text \div avg_chars_per_token

\* system_prompt_tokens of _calculate_batch_size
system_prompt_tokens ==
    estimate_tokens(BATCH_SYSTEM_PROMPT)
      + (IF additional_prompt # 0 THEN estimate_tokens(additional_prompt) ELSE 0)

\* sheet_tokens of the sheet at the 0-based index i
sheet_tokens(i) == estimate_tokens(sheets_data[i + 1])

\* faulty variant of potential_total: the template is not counted
potential_total_no_prompt(i) == current_tokens + sheet_tokens(i)

\* potential_total = system_prompt_tokens + current_tokens + sheet_tokens
potential_total(i) == system_prompt_tokens + current_tokens + sheet_tokens(i)

\* faulty variant of ExceedsBudget: >= for >, a batch that would just reach
\* the budget is closed
ExceedsBudgetEager(i) ==
    potential_total(i) >= max_tokens_per_batch /\ current_batch # <<>>

\* if potential_total > self.max_tokens_per_batch and current_batch:
ExceedsBudget(i) ==
    potential_total(i) > max_tokens_per_batch /\ current_batch # <<>>

\* faulty variant of BatchFull: > for >=
BatchFullStrict == Len(current_batch) > max_batch_size

\* elif len(current_batch) >= self.max_batch_size:
BatchFull == Len(current_batch) >= max_batch_size

\* faulty variant of NewBatch: the sheet that closes a batch is lost
NewBatchDropped(i) == <<>>

\* current_batch = [idx] after a batch is closed
NewBatch(i) == <<i>>

InitPlanner ==
    /\ sheets_data \in SeqsUpTo(0..MaxSheetChars, MaxSheets)
    /\ additional_prompt \in 0..MaxAdditionalChars
    /\ max_tokens_per_batch \in 0..MaxBudget
    /\ max_batch_size \in 1..MaxBatchSize
    /\ idx = 0
    /\ batches = <<>>
    /\ current_batch = <<>>
    /\ current_tokens = 0
    /\ planPc = "loop"
    /\ GenIdle
    /\ ParseIdle
    /\ CoordIdle
    /\ WebIdle
    /\ EntryIdle
    /\ RowsIdle

PlanInputsUnchanged ==
    UNCHANGED <<sheets_data, additional_prompt, max_tokens_per_batch,
                max_batch_size, notPlanVars>>

\* the first branch of the loop: the current batch is full by tokens
PlanCloseOnTokens ==
    /\ planPc = "loop"
    /\ idx < Len(sheets_data)
    /\ ExceedsBudget(idx)
    /\ batches' = Append(batches, current_batch)
    /\ current_batch' = NewBatch(idx)
    /\ current_tokens' = sheet_tokens(idx)
    /\ idx' = idx + 1
    /\ planPc' = "loop"
    /\ PlanInputsUnchanged

\* the second branch: the current batch holds max_batch_size sheets
PlanCloseOnSize ==
    /\ planPc = "loop"
    /\ idx < Len(sheets_data)
    /\ ~ExceedsBudget(idx)
    /\ BatchFull
    /\ batches' = Append(batches, current_batch)
    /\ current_batch' = NewBatch(idx)
    /\ current_tokens' = sheet_tokens(idx)
    /\ idx' = idx + 1
    /\ planPc' = "loop"
    /\ PlanInputsUnchanged

\* the third branch: the sheet joins the current batch
PlanAppend ==
    /\ planPc = "loop"
    /\ idx < Len(sheets_data)
    /\ ~ExceedsBudget(idx)
    /\ ~BatchFull
    /\ current_batch' = Append(current_batch, idx)
    /\ current_tokens' = current_tokens + sheet_tokens(idx)
    /\ idx' = idx + 1
    /\ planPc' = "loop"
    /\ UNCHANGED batches
    /\ PlanInputsUnchanged

\* after the loop: "if current_batch: batches.append(current_batch)", return
PlanFlush ==
    /\ planPc = "loop"
    /\ idx = Len(sheets_data)
    /\ batches' = IF current_batch # <<>> THEN Append(batches, current_batch)
                  ELSE batches
    /\ planPc' = "done"
    /\ UNCHANGED <<idx, current_batch, current_tokens>>
    /\ PlanInputsUnchanged

NextPlanner ==
    \/ PlanCloseOnTokens
    \/ PlanCloseOnSize
    \/ PlanAppend
    \/ PlanFlush

SpecPlanner == InitPlanner /\ [][NextPlanner]_vars

-----------------------------------------------------------------------------
(* Generation Client: the retry loop of _generate_and_save (template        *)
(* "single") and of _generate_and_save_batch (template "batch").            *)
(*                                                                         *)
(* An exception of the API is modelled by what the loop reads of str(e):    *)
(*   quota     '429' in str_error or 'quota' in str_error.lower()           *)
(*   retry_in  the number matched by r'retry in (\d+(\.\d+)?)s', in whole   *)
(*             seconds, or -1 when the pattern does not match               *)
(*   rle       'rate limit exceeded' in str_error.lower()                   *)
(*   n         the API call that raised it (tells the exceptions apart)     *)
(* Durations are in tenths of a second, so that wait_time + 1.5 is whole.   *)
(***************************************************************************)

ErrorTexts ==
    [quota : BOOLEAN, retry_in : {-1} \cup 1..MaxRetryIn, rle : BOOLEAN]

ErrorOf(txt, n) ==
    [quota |-> txt.quota, retry_in |-> txt.retry_in, rle |-> txt.rle, n |-> n]

\* if '429' in str_error or 'quota' in str_error.lower():
IsRateLimit(e) == e.quota

\* wait_match = re.search(r'retry in (\d+(\.\d+)?)s', str_error)
wait_match(e) == e.retry_in # -1

Seconds(s) == s * 10

\* faulty variant of final_wait: the 1.5 s buffer is missing
final_wait_no_buffer(e) == Seconds(e.retry_in)

\* final_wait = wait_time + 1.5
final_wait(e) == Seconds(e.retry_in) + 15

RECURSIVE Pow2(_)
Pow2(n) == IF n = 0 THEN 1 ELSE 2 * Pow2(n - 1)

\* faulty variant of delay: the delay does not grow with the attempts
delay_constant(a) == Seconds(initial_retry_delay)

\* delay = self.initial_retry_delay * (2 ** (attempt - 1))
delay(a) == Seconds(initial_retry_delay * Pow2(a - 1))

\* "if attempt > 0: ... time.sleep(delay)" at the head of the try block
BackoffSleep(a) ==
    IF a > 0 THEN <<[ev |-> "sleep", d |-> delay(a)]>> ELSE <<>>

\* faulty variant of ExceptSingle: every error is retried until the loop ends
ExceptSingleRetriesAll(a, e) ==
    IF IsRateLimit(e) /\ wait_match(e)
    THEN [sleep |-> <<[ev |-> "sleep", d |-> final_wait(e)]>>, raise |-> FALSE]
    ELSE [sleep |-> <<>>, raise |-> FALSE]

\* The except block of _generate_and_save: what it sleeps, and whether it
\* raises retry_error (otherwise the for loop goes on to the next attempt).
ExceptSingle(a, e) ==
    IF IsRateLimit(e)
    THEN IF wait_match(e)
         THEN \* time.sleep(final_wait); continue
              [sleep |-> <<[ev |-> "sleep", d |-> final_wait(e)]>>, raise |-> FALSE]
         ELSE IF e.rle /\ a = max_retries - 1
              THEN \* pass, then "if attempt == self.max_retries - 1: pass"
                   [sleep |-> <<>>, raise |-> FALSE]
              ELSE \* continue
                   [sleep |-> <<>>, raise |-> FALSE]
    ELSE IF a = max_retries - 1
         THEN \* pass: the loop ends and last_error is raised after it
              [sleep |-> <<>>, raise |-> FALSE]
         ELSE \* '429' not in str_error and 'quota' not in str_error.lower()
              [sleep |-> <<>>, raise |-> ~IsRateLimit(e)]

\* faulty variant of ExceptBatch: the wait the service asks for is not slept
ExceptBatchIgnoresHint(a, e) ==
    IF IsRateLimit(e) THEN [sleep |-> <<>>, raise |-> FALSE]
    ELSE [sleep |-> <<>>, raise |-> a # max_retries - 1]

\* The except block of _generate_and_save_batch.
ExceptBatch(a, e) ==
    IF IsRateLimit(e)
    THEN IF wait_match(e)
         THEN [sleep |-> <<[ev |-> "sleep", d |-> final_wait(e)]>>, raise |-> FALSE]
         ELSE IF e.rle /\ a = max_retries - 1
              THEN [sleep |-> <<>>, raise |-> FALSE]
              ELSE [sleep |-> <<>>, raise |-> FALSE]
    ELSE IF a = max_retries - 1
         THEN [sleep |-> <<>>, raise |-> FALSE]
         ELSE [sleep |-> <<>>, raise |-> ~IsRateLimit(e)]

ExceptBlock(a, e) ==
    IF template = "batch" THEN ExceptBatch(a, e) ELSE ExceptSingle(a, e)

\* faulty variants of LoopExhausted: one attempt fewer, one attempt more
LoopExhaustedEarly(a) == a >= max_retries - 1

LoopExhaustedLate(a) == a >= max_retries + 1

\* range(self.max_retries) has no value left for the loop variable
LoopExhausted(a) == a >= max_retries

\* faulty variant of NewLastError: the first error is kept
KeepFirstError(old, e) == IF old = <<>> THEN <<e>> ELSE old

\* last_error = retry_error
NewLastError(old, e) == <<e>>

NumCalls == Cardinality({p \in 1..Len(events) : events[p].ev = "call"})

InitGen ==
    /\ template \in {"single", "batch"}
    /\ attempt = 0
    /\ response = <<>>
    /\ last_error = <<>>
    /\ raised_error = <<>>
    /\ events = <<>>
    /\ genPc = "loop"
    /\ PlannerIdle
    /\ ParseIdle
    /\ CoordIdle
    /\ WebIdle
    /\ EntryIdle
    /\ RowsIdle

\* One iteration of the loop in which generate_content returns: break.
GenAttemptSucceeds ==
    /\ UNCHANGED notGenVars
    /\ genPc = "loop"
    /\ ~LoopExhausted(attempt)
    /\ LET n == NumCalls + 1 IN
         /\ events' = events \o BackoffSleep(attempt)
                        \o <<[ev |-> "call", ok |-> TRUE, n |-> n]>>
         /\ response' = <<n>>
    /\ genPc' = "after_loop"
    /\ UNCHANGED <<template, attempt, last_error, raised_error>>

\* One iteration of the loop in which generate_content raises: the except
\* block runs, and the loop goes on, ends, or the exception is raised again.
GenAttemptFails ==
    /\ UNCHANGED notGenVars
    /\ genPc = "loop"
    /\ ~LoopExhausted(attempt)
    /\ \E txt \in ErrorTexts :
         LET n == NumCalls + 1
             e == ErrorOf(txt, n)
             h == ExceptBlock(attempt, e)
         IN
           /\ events' = events \o BackoffSleep(attempt)
                          \o <<[ev |-> "call", ok |-> FALSE, n |-> n, err |-> e]>>
                          \o h.sleep
           /\ last_error' = NewLastError(last_error, e)
           /\ IF h.raise
              THEN /\ raised_error' = <<e>>
                   /\ genPc' = "raised"
                   /\ UNCHANGED attempt
              ELSE /\ attempt' = attempt + 1
                   /\ genPc' = IF LoopExhausted(attempt + 1)
                               THEN "after_loop" ELSE "loop"
                   /\ UNCHANGED raised_error
    /\ UNCHANGED <<template, response>>

\* if response is None: raise last_error or Exception(...)
GenRaiseLastError ==
    /\ UNCHANGED notGenVars
    /\ genPc = "after_loop"
    /\ response = <<>>
    /\ raised_error' = last_error
    /\ genPc' = "raised"
    /\ UNCHANGED <<template, attempt, response, last_error, events>>

\* the response text goes on to the parser
GenRespond ==
    /\ UNCHANGED notGenVars
    /\ genPc = "after_loop"
    /\ response # <<>>
    /\ genPc' = "responded"
    /\ UNCHANGED <<template, attempt, response, last_error, raised_error, events>>

NextGen ==
    \/ GenAttemptSucceeds
    \/ GenAttemptFails
    \/ GenRaiseLastError
    \/ GenRespond

SpecGen == InitGen /\ [][NextGen]_vars

-----------------------------------------------------------------------------
(* Response Parser and File Materializer.                                   *)
(*                                                                         *)
(* A JSON value (what json.loads returns) is a record tagged by its Python  *)
(* type; strings are sequences of characters. A response text is the        *)
(* sequence of its lexemes,                                                 *)
(*   "fence_markdown"  "fence_json"  "fence"   the marks ```markdown,       *)
(*                                     ```json and ```                      *)
(*   "ws"                              a run of whitespace                  *)
(*   "prose"                           text with no fence mark and no brace *)
(*   "JSON"                            the serialisation of the value val   *)
(* and a file content is a text as well (an entry's content string is the   *)
(* sequence of its characters).                                             *)
(***************************************************************************)

NullV == [t |-> "null"]
BoolV(b) == [t |-> "bool", b |-> b]
NumV(n) == [t |-> "num", n |-> n]
StrV(s) == [t |-> "str", s |-> s]
ListV(items) == [t |-> "list", items |-> items]
ObjV(keys, m) == [t |-> "obj", keys |-> keys, m |-> m]

MD == <<".", "m", "d">>
FILES == <<"f", "i", "l", "e", "s">>
OUTPUT_MD == <<"o", "u", "t", "p", "u", "t", ".", "m", "d">>
SHEET_ == <<"s", "h", "e", "e", "t", "_">>
BATCH_ == <<"_", "b", "a", "t", "c", "h", "_">>

\* str(n) of a one-digit number
Digit(n) == <<<<"0">>, <<"1">>, <<"2">>, <<"3">>, <<"4">>, <<"5">>, <<"6">>,
              <<"7">>, <<"8">>, <<"9">>>>[n + 1]

\* s.endswith(suffix)
EndsWith(s, suffix) ==
    /\ Len(s) >= Len(suffix)
    /\ SubSeq(s, Len(s) - Len(suffix) + 1, Len(s)) = suffix

\* s.startswith(prefix)
StartsWith(s, prefix) ==
    /\ Len(s) >= Len(prefix)
    /\ SubSeq(s, 1, Len(prefix)) = prefix

\* sub in s, for strings
IsInfix(sub, s) ==
    \E i \in 0..(Len(s) - Len(sub)) : SubSeq(s, i + 1, i + Len(sub)) = sub

\* bool(v): None, False, 0, "", [] and {} are falsy
Truthy(v) ==
    CASE v.t = "null" -> FALSE
      [] v.t = "bool" -> v.b
      [] v.t = "num"  -> v.n # 0
      [] v.t = "str"  -> v.s # <<>>
      [] v.t = "list" -> v.items # <<>>
      [] v.t = "obj"  -> v.keys # {}

\* d.get(key, default) of a dict d
Get(d, key, default) == IF key \in d.keys THEN d.m[key] ELSE default

\* "'files' in data": a key of a dict, an item of a list, a substring of a
\* string, and a TypeError for None, a bool or a number
FilesIn(data) ==
    CASE data.t = "obj"  -> [exc |-> "none", in |-> "files" \in data.keys]
      [] data.t = "list" -> [exc |-> "none",
                             in |-> \E i \in 1..Len(data.items) :
                                        data.items[i] = StrV(FILES)]
      [] data.t = "str"  -> [exc |-> "none", in |-> IsInfix(FILES, data.s)]
      [] OTHER           -> [exc |-> "TypeError", in |-> FALSE]

\* data['files']: a TypeError unless data is a dict (reached with 'files' in data)
FilesOf(data) ==
    IF data.t = "obj" THEN [exc |-> "none", v |-> data.m["files"]]
    ELSE [exc |-> "TypeError", v |-> NullV]

\* len(v): a TypeError for None, a bool or a number
HasLen(v) == v.t \in {"str", "list", "obj"}

\* "for x in v": the items of a list, the characters of a string, the keys of
\* a dict; a TypeError for None, a bool or a number
Iter(v) ==
    CASE v.t = "list" -> [exc |-> "none", items |-> v.items]
      [] v.t = "str"  -> [exc |-> "none",
                          items |-> [i \in 1..Len(v.s) |-> StrV(<<v.s[i]>>)]]
      [] v.t = "obj"  -> [exc |-> "none",
                          items |-> [i \in 1..Cardinality(v.keys) |-> StrV(<<"k">>)]]
      [] OTHER        -> [exc |-> "TypeError", items |-> <<>>]

RECURSIVE TrimLeft(_)
TrimLeft(lex) ==
    IF lex # <<>> /\ Head(lex) = "ws" THEN TrimLeft(Tail(lex)) ELSE lex

RECURSIVE TrimRight(_)
TrimRight(lex) ==
    IF lex # <<>> /\ lex[Len(lex)] = "ws"
    THEN TrimRight(SubSeq(lex, 1, Len(lex) - 1)) ELSE lex

\* json.loads(text): the value, when the text is one JSON value with
\* whitespace around it, and a JSONDecodeError otherwise
json_loads(lex, val) ==
    IF TrimRight(TrimLeft(lex)) = <<"JSON">>
    THEN [ok |-> TRUE, v |-> val]
    ELSE [ok |-> FALSE, v |-> NullV]

\* the least index of lex from `from` on whose lexeme is in S, or 0
FirstIn(lex, from, S) ==
    LET I == {i \in from..Len(lex) : lex[i] \in S}
    IN IF I = {} THEN 0 ELSE CHOOSE i \in I : \A j \in I : i <= j

\* the greatest index of lex whose lexeme is in S, or 0
LastIn(lex, S) ==
    LET I == {i \in 1..Len(lex) : lex[i] \in S}
    IN IF I = {} THEN 0 ELSE CHOOSE i \in I : \A j \in I : i >= j

Ticks == {"fence", "fence_json", "fence_markdown"}

\* re.search(r'```json\s*(.*?)\s*```', text, re.DOTALL): group 1, from the
\* first ```json to the nearest ``` after it
fence_match(lex) ==
    LET i == FirstIn(lex, 1, {"fence_json"})
        j == IF i = 0 THEN 0 ELSE FirstIn(lex, i + 1, Ticks)
    IN IF j = 0 THEN [found |-> FALSE, group |-> <<>>]
       ELSE [found |-> TRUE, group |-> SubSeq(lex, i + 1, j - 1)]

\* the lexemes that hold a brace: the serialisation of a dict
Braced(val) == IF val.t = "obj" THEN {"JSON"} ELSE {}

\* re.search(r'\{.*\}', text, re.DOTALL): group 0, from the first "{" to the
\* last "}"
brace_match(lex, val) ==
    LET i == FirstIn(lex, 1, Braced(val))
        j == LastIn(lex, Braced(val))
    IN IF i = 0 THEN [found |-> FALSE, group |-> <<>>]
       ELSE [found |-> TRUE, group |-> SubSeq(lex, i, j)]

\* step 1: data = json.loads(response_text), None on a JSONDecodeError
DirectParse(text) ==
    LET r == json_loads(text.lex, text.val)
    IN IF r.ok THEN r.v ELSE NullV

\* step 2: "if not data:" the fenced ```json block
FencedParse(text, data) ==
    IF Truthy(data) THEN data
    ELSE LET m == fence_match(text.lex)
             r == json_loads(m.group, text.val)
         IN IF m.found /\ r.ok THEN r.v ELSE data

\* step 3: "if not data:" the first {...} span
BraceParse(text, data) ==
    IF Truthy(data) THEN data
    ELSE LET m == brace_match(text.lex, text.val)
             r == json_loads(m.group, text.val)
         IN IF m.found /\ r.ok THEN r.v ELSE data

\* the extraction cascade of both parsers
ExtractData(text) == BraceParse(text, FencedParse(text, DirectParse(text)))

\* what one step of the cascade did: json.loads returned (ok), and data
\* after the step
CascadeStep(k, ok, data) == [step |-> k, ok |-> ok, data |-> data]

\* faulty variant of CascadeSteps: the steps are not guarded by "if not data"
CascadeStepsUnguarded(text) ==
    LET m2 == fence_match(text.lex)
        m3 == brace_match(text.lex, text.val)
        d1 == DirectParse(text)
        d2 == FencedParse(text, d1)
    IN <<CascadeStep(1, json_loads(text.lex, text.val).ok, d1),
         CascadeStep(2, m2.found /\ json_loads(m2.group, text.val).ok, d2),
         CascadeStep(3, m3.found /\ json_loads(m3.group, text.val).ok,
                     BraceParse(text, d2))>>

\* the steps of the cascade that are run on text, in order (lines 607-632
\* and 791-818): step 2 and step 3 are each within "if not data:"
CascadeSteps(text) ==
    LET m2 == fence_match(text.lex)
        m3 == brace_match(text.lex, text.val)
        d1 == DirectParse(text)
        d2 == FencedParse(text, d1)
    IN <<CascadeStep(1, json_loads(text.lex, text.val).ok, d1)>>
       \o (IF Truthy(d1) THEN <<>>
           ELSE <<CascadeStep(2, m2.found /\ json_loads(m2.group, text.val).ok,
                              d2)>>)
       \o (IF Truthy(d2) THEN <<>>
           ELSE <<CascadeStep(3, m3.found /\ json_loads(m3.group, text.val).ok,
                              BraceParse(text, d2))>>)

\* re.sub(r'^```markdown\s*', '', content)
StripLeadingFence(lex) ==
    IF lex # <<>> /\ Head(lex) = "fence_markdown" THEN TrimLeft(Tail(lex)) ELSE lex

\* re.sub(r'\s*```$', '', content)
StripTrailingFence(lex) ==
    IF lex # <<>> /\ lex[Len(lex)] = "fence"
    THEN TrimRight(SubSeq(lex, 1, Len(lex) - 1)) ELSE lex

\* the outcome of a parser: the files written, the list returned, the exception
Outcome(w, created, exc) == [writes |-> w, created |-> created, exc |-> exc]

\* _save_simple_markdown(content, output_dir, base): writes <base>.md
save_simple_markdown(w, text, base) ==
    LET content == [lex |-> StripTrailingFence(StripLeadingFence(text.lex)),
                    val |-> text.val]
        file_path == base \o MD
    IN Outcome(Append(w, [path |-> file_path, content |-> content]),
               <<file_path>>, "none")

\* faulty variant of EnsureMd: the extension is added unconditionally
EnsureMdAlways(filename) == filename \o MD

\* faulty variant of EnsureMd: the file name is left as it is
EnsureMdNever(filename) == filename

\* if not filename.endswith('.md'): filename += '.md'
EnsureMd(filename) ==
    IF EndsWith(filename, MD) THEN filename ELSE filename \o MD

\* if not filename.startswith(base_name): filename = f"{base_name}_{filename}"
PrependBase(filename, base) ==
    IF StartsWith(filename, base) THEN filename ELSE base \o <<"_">> \o filename

\* the output directory after the writes w: open(file_path, 'w') creates the
\* file or empties the one that is there, so a path holds what was written
\* to it last
OutputDir(w) ==
    [p \in {w[i].path : i \in 1..Len(w)} |->
        LET I == {i \in 1..Len(w) : w[i].path = p}
        IN w[CHOOSE i \in I : \A j \in I : j <= i].content]

\* faulty variant of WriteFile: a file that is there is not written again
WriteFileExclusive(acc, file_path, content) ==
    IF \E i \in 1..Len(acc.writes) : acc.writes[i].path = file_path
    THEN Outcome(acc.writes, acc.created, "FileExistsError")
    ELSE IF content.t # "str"
    THEN Outcome(Append(acc.writes,
                        [path |-> file_path,
                         content |-> [lex |-> <<>>, val |-> NullV]]),
                 acc.created, "TypeError")
    ELSE Outcome(Append(acc.writes,
                        [path |-> file_path,
                         content |-> [lex |-> content.s, val |-> NullV]]),
                 Append(acc.created, file_path), "none")

\* with open(file_path, 'w') as f: f.write(content); created_files.append():
\* open creates the file, and write raises a TypeError for a content that is
\* no string
WriteFile(acc, file_path, content) ==
    IF content.t = "str"
    THEN Outcome(Append(acc.writes,
                        [path |-> file_path,
                         content |-> [lex |-> content.s, val |-> NullV]]),
                 Append(acc.created, file_path), "none")
    ELSE Outcome(Append(acc.writes,
                        [path |-> file_path,
                         content |-> [lex |-> <<>>, val |-> NullV]]),
                 acc.created, "TypeError")

\* the body of "for file_info in data['files']" of _parse_and_save_response
SingleEntry(acc, file_info, i) ==
    IF file_info.t # "obj"
    THEN \* file_info.get: only a dict has it
         Outcome(acc.writes, acc.created, "AttributeError")
    ELSE LET filename == Get(file_info, "filename", StrV(OUTPUT_MD))
             content == Get(file_info, "content", StrV(<<>>))
         IN IF ~Truthy(content) THEN acc
            ELSE IF filename.t # "str"
            THEN \* filename.endswith: only a string has it
                 Outcome(acc.writes, acc.created, "AttributeError")
            ELSE WriteFile(acc, EnsureMd(filename.s), content)

\* the body of "for idx, file_info in enumerate(files_data)" of
\* _parse_and_save_batch_response
BatchEntry(acc, file_info, i) ==
    IF file_info.t # "obj"
    THEN Outcome(acc.writes, acc.created, "AttributeError")
    ELSE LET filename == Get(file_info, "filename", StrV(SHEET_ \o Digit(i) \o MD))
             content == Get(file_info, "content", StrV(<<>>))
         IN IF ~Truthy(content) THEN acc
            ELSE IF filename.t # "str"
            THEN Outcome(acc.writes, acc.created, "AttributeError")
            ELSE WriteFile(acc, PrependBase(EnsureMd(filename.s), base_name),
                           content)

\* the for loop over the entries, left by the first exception
RECURSIVE ForEach(_, _, _, _)
ForEach(which, items, k, acc) ==
    IF k > Len(items) \/ acc.exc # "none" THEN acc
    ELSE ForEach(which, items, k + 1,
                 IF which = "batch" THEN BatchEntry(acc, items[k], k - 1)
                 ELSE SingleEntry(acc, items[k], k - 1))

\* the try block of _parse_and_save_response
SingleTry(text) ==
    LET data == ExtractData(text)
        none == Outcome(writes, <<>>, "none")
    IN IF ~Truthy(data)
       THEN save_simple_markdown(writes, text, base_name)
       ELSE LET has == FilesIn(data) IN
            IF has.exc # "none" THEN Outcome(writes, <<>>, has.exc)
            ELSE IF has.in
            THEN LET f == FilesOf(data)
                     it == Iter(f.v)
                 IN IF f.exc # "none" THEN Outcome(writes, <<>>, f.exc)
                    ELSE IF it.exc # "none" THEN Outcome(writes, <<>>, it.exc)
                    ELSE ForEach("single", it.items, 1, none)
            ELSE IF data.t # "obj"
                 THEN \* list(data.keys()) in the warning: only a dict has keys
                      Outcome(writes, <<>>, "AttributeError")
                 ELSE save_simple_markdown(writes, text, base_name)

\* _parse_and_save_response: except (json.JSONDecodeError, KeyError)
parse_and_save_response(text) ==
    LET r == SingleTry(text)
    IN IF r.exc \in {"JSONDecodeError", "KeyError"}
       THEN save_simple_markdown(r.writes, text, base_name)
       ELSE r

\* f"{base_name}_batch_{batch_indices[0]}"
BatchFallbackName == base_name \o BATCH_ \o Digit(batch_indices[1])

\* faulty variant of BatchTry: a number of files that differs from the number
\* of sheets of the batch is an error
BatchTryMismatchRaises(text) ==
    IF /\ ExtractData(text).t = "obj"
       /\ "files" \in ExtractData(text).keys
       /\ ExtractData(text).m["files"].t = "list"
       /\ Len(ExtractData(text).m["files"].items) # Len(batch_indices)
    THEN Outcome(writes, <<>>, "ValueError")
    ELSE
        LET data == ExtractData(text)
            none == Outcome(writes, <<>>, "none")
        IN IF ~Truthy(data)
           THEN save_simple_markdown(writes, text, BatchFallbackName)
           ELSE LET has == FilesIn(data) IN
                IF has.exc # "none" THEN Outcome(writes, <<>>, has.exc)
                ELSE IF ~has.in
                THEN save_simple_markdown(writes, text, BatchFallbackName)
                ELSE LET f == FilesOf(data)
                         it == Iter(f.v)
                     IN IF f.exc # "none" THEN Outcome(writes, <<>>, f.exc)
                        ELSE IF ~HasLen(f.v) THEN Outcome(writes, <<>>, "TypeError")
                        ELSE ForEach("batch", it.items, 1, none)

\* the try block of _parse_and_save_batch_response
BatchTry(text) ==
    LET data == ExtractData(text)
        none == Outcome(writes, <<>>, "none")
    IN IF ~Truthy(data)
       THEN save_simple_markdown(writes, text, BatchFallbackName)
       ELSE LET has == FilesIn(data) IN
            IF has.exc # "none" THEN Outcome(writes, <<>>, has.exc)
            ELSE IF ~has.in
            THEN save_simple_markdown(writes, text, BatchFallbackName)
            ELSE LET f == FilesOf(data)
                     it == Iter(f.v)
                 IN IF f.exc # "none" THEN Outcome(writes, <<>>, f.exc)
                    ELSE IF ~HasLen(f.v) THEN Outcome(writes, <<>>, "TypeError")
                    ELSE ForEach("batch", it.items, 1, none)

\* faulty variant of parse_and_save_batch_response: the handler of the single
\* parser, which lets the other exceptions through
parse_and_save_batch_response_narrow(text) ==
    LET r == BatchTry(text)
    IN IF r.exc \in {"JSONDecodeError", "KeyError"}
       THEN save_simple_markdown(r.writes, text, BatchFallbackName)
       ELSE r

\* _parse_and_save_batch_response: except Exception
parse_and_save_batch_response(text) ==
    LET r == BatchTry(text)
    IN IF r.exc # "none"
       THEN save_simple_markdown(r.writes, text, BatchFallbackName)
       ELSE r

(* The responses the parsers are run on *)

FileNameStrs ==
    {<<"s">>, <<"s", ".", "m", "d">>, <<"t", ".", "m", "d">>, <<"b", "_", "s">>}

ContentStrs == {<<>>, <<"c">>, <<"d">>}

\* a dict with no key
EmptyObj == ObjV({}, [none |-> NullV])

\* the entries of a "files" list: {filename, content} dicts, and malformed ones
Entries ==
    {ObjV({"filename", "content"}, [filename |-> StrV(f), content |-> StrV(c)]) :
        f \in FileNameStrs, c \in ContentStrs}
    \cup
    {ObjV({"content"}, [content |-> StrV(<<"c">>)]),
     ObjV({"filename"}, [filename |-> StrV(<<"s">>)]),
     ObjV({"filename", "content"}, [filename |-> NullV, content |-> StrV(<<"c">>)]),
     ObjV({"filename", "content"}, [filename |-> NullV, content |-> StrV(<<>>)]),
     ObjV({"filename", "content"}, [filename |-> StrV(<<"s">>), content |-> NumV(5)]),
     StrV(<<"x">>)}

FilesValues ==
    {ListV(l) : l \in SeqsUpTo(Entries, MaxFiles)}
    \cup
    {NullV, NumV(5), StrV(<<>>), StrV(<<"a", "b">>), EmptyObj,
     ObjV({"k"}, [k |-> NumV(1)])}

JsonValues ==
    {NullV, BoolV(FALSE), BoolV(TRUE), NumV(0), NumV(5), StrV(<<>>),
     StrV(<<"x">>), StrV(<<"x">> \o FILES), ListV(<<>>), ListV(<<NumV(1)>>),
     ListV(<<StrV(FILES)>>), EmptyObj, ObjV({"a"}, [a |-> NumV(1)])}
    \cup
    {ObjV({"files"}, [files |-> fv]) : fv \in FilesValues}

\* the lexeme sequences around a JSON value: the value alone, padded with
\* whitespace, in a ```json block within prose, as a {...} span within prose
JsonLayouts ==
    {<<"JSON">>,
     <<"ws", "JSON", "ws">>,
     <<"prose", "fence_json", "ws", "JSON", "ws", "fence", "prose">>,
     <<"fence_json", "ws", "JSON", "ws", "fence">>,
     <<"prose", "JSON", "prose">>}

\* the texts that hold no JSON value
PlainLayouts ==
    {<<>>,
     <<"prose">>,
     <<"fence_markdown", "ws", "prose", "ws", "fence">>,
     <<"fence_markdown", "ws", "fence">>,
     <<"fence_json", "ws", "prose", "ws", "fence">>}

ResponseTexts ==
    {[lex |-> l, val |-> v] : l \in JsonLayouts, v \in JsonValues}
    \cup
    {[lex |-> l, val |-> NullV] : l \in PlainLayouts}

InitParse ==
    /\ parser \in {"single", "batch"}
    /\ response_text \in ResponseTexts
    /\ base_name = <<"b">>
    /\ batch_indices \in (IF parser = "batch" THEN {<<0, 1>>, <<2>>} ELSE {<<0>>})
    /\ writes = <<>>
    /\ returned = <<>>
    /\ parse_exc = "none"
    /\ parsePc = "start"
    /\ PlannerIdle
    /\ GenIdle
    /\ CoordIdle
    /\ WebIdle
    /\ EntryIdle
    /\ RowsIdle

ParseFinish(r) ==
    /\ writes' = r.writes
    /\ returned' = r.created
    /\ parse_exc' = r.exc
    /\ parsePc' = IF r.exc = "none" THEN "returned" ELSE "raised"
    /\ UNCHANGED <<parser, response_text, base_name, batch_indices>>

\* _parse_and_save_response(response_text, output_dir, base_name)
ParseSingle ==
    /\ UNCHANGED notParseVars
    /\ parsePc = "start"
    /\ parser = "single"
    /\ ParseFinish(parse_and_save_response(response_text))

\* _parse_and_save_batch_response(response_text, output_dir, base_name,
\*                                expected_sheet_names, batch_indices)
ParseBatch ==
    /\ UNCHANGED notParseVars
    /\ parsePc = "start"
    /\ parser = "batch"
    /\ ParseFinish(parse_and_save_batch_response(response_text))

NextParse ==
    \/ ParseSingle
    \/ ParseBatch

SpecParse == InitParse /\ [][NextParse]_vars

-----------------------------------------------------------------------------
(* Conversion Coordinator: convert and convert_file.                        *)
(*                                                                         *)
(* A file is [name, ext, sheets]: its name, Path(file_path).suffix.lower()  *)
(* and the number of its sheets (1 for a CSV). A sheet is named by its      *)
(* index. A call of _generate_and_save[_batch] is one step: it either       *)
(* returns the list of the files it created or raises. An error message is  *)
(* [text]: the words of str(e), in order.                                   *)
(***************************************************************************)

Extensions == {".xlsx", ".xls", ".csv", ".txt"}

\* the number of generation units of a file
Units(f) == IF f.ext \in {".xlsx", ".xls"} THEN f.sheets
            ELSE IF f.ext = ".csv" THEN 1 ELSE 0

FilesNamed(k) ==
    {[name |-> k, ext |-> e, sheets |-> n] : e \in {".xlsx", ".xls"}, n \in 1..MaxUnits}
    \cup {[name |-> k, ext |-> e, sheets |-> 1] : e \in {".csv", ".txt"}}

\* the listings of a directory: distinct names, MaxUnits units at most
Listings ==
    {l \in UNION {[1..n -> UNION {FilesNamed(k) : k \in 1..MaxDirEntries}] :
                     n \in 0..MaxDirEntries} :
        /\ \A i \in 1..Len(l) : l[i].name = i
        /\ SumSeq([i \in 1..Len(l) |-> Units(l[i])]) <= MaxUnits}

InputPaths ==
    {[isfile |-> TRUE, file |-> f] : f \in FilesNamed(1)}
    \cup {[isfile |-> FALSE, entries |-> l] : l \in Listings}

\* Path(input_path).glob('*' + ext)
Glob(entries, ext) == SelectSeq(entries, LAMBDA f : f.ext = ext)

\* faulty variant of FilesToProcess: nothing is left to process once files
\* have been converted
FilesToProcessOnce(path) ==
    IF coord_events # <<>> THEN <<>>
    ELSE IF path.isfile THEN <<path.file>>
    ELSE Glob(path.entries, ".xlsx") \o Glob(path.entries, ".xls")
         \o Glob(path.entries, ".csv")

\* lines 914-921 of convert
FilesToProcess(path) ==
    IF path.isfile THEN <<path.file>>
    ELSE Glob(path.entries, ".xlsx") \o Glob(path.entries, ".xls")
         \o Glob(path.entries, ".csv")

\* the results _calculate_batch_size can return for sheets lo..n-1: the ways
\* of cutting them, in order, into batches that are not empty
RECURSIVE PlansFrom(_, _)
PlansFrom(lo, n) ==
    IF lo = n THEN {<<>>}
    ELSE UNION {{<<[i \in 1..(hi - lo) |-> lo + i - 1]>> \o rest :
                    rest \in PlansFrom(hi, n)} : hi \in (lo + 1)..n}

\* the message of the service for a key it does not accept
KeyRejected == [text |-> <<"400 INVALID_ARGUMENT. ", "API key not valid">>]

\* the messages of the exceptions a generate call raises; with a key the
\* service rejects every call raises, and with that message
UnitErrors ==
    IF web_request.api_key = "rejected" THEN {KeyRejected}
    ELSE {[text |-> <<"429", "quota">>], [text |-> <<"boom">>]}

\* the message of an exception raised while a file is opened or read
ReadError == [text |-> <<"cannot read">>]

\* ValueError(f"Unsupported file type: {file_extension}")
UnsupportedError(f) == [text |-> <<"Unsupported file type: ", f.ext>>]

\* Exception(f"<prefix>{str(e)}"): the text of e is kept within the new one
Wrapped(prefix, e) == [e EXCEPT !.text = <<prefix>> \o e.text]

\* word.lower(), for the words the mapping of the messages looks for
LowerWord(w) ==
    CASE w = "API key not valid" -> "api key not valid"
      [] w = "QUOTA" -> "quota"
      [] w = "Not Found" -> "not found"
      [] w = "Model" -> "model"
      [] OTHER -> w

\* error_msg.lower()
lower(text) == [i \in 1..Len(text) |-> LowerWord(text[i])]

\* word in text
Contains(text, word) == \E i \in 1..Len(text) : text[i] = word

QUOTA_MESSAGE == <<"Da het han ngach (Quota exceeded) hoac gui qua nhanh.">>

\* faulty variant of friendly_error_message: the quota is looked for before
\* the key
friendly_error_message_quota_first(m) ==
    IF Contains(lower(m.text), "quota") \/ Contains(m.text, "429")
    THEN QUOTA_MESSAGE
    ELSE IF Contains(m.text, "API key not valid")
    THEN <<"API Key khong hop le.">>
    ELSE IF /\ Contains(lower(m.text), "not found")
            /\ Contains(lower(m.text), "model")
    THEN <<"Model '", model_name, "' khong ton tai hoac khong duoc ho tro.">>
    ELSE m.text

\* _friendly_error_message(error_msg), error_msg being m.text
friendly_error_message(m) ==
    IF Contains(m.text, "API key not valid")
    THEN <<"API Key khong hop le.">>
    ELSE IF Contains(lower(m.text), "quota") \/ Contains(m.text, "429")
    THEN QUOTA_MESSAGE
    ELSE IF /\ Contains(lower(m.text), "not found")
            /\ Contains(lower(m.text), "model")
    THEN <<"Model '", model_name, "' khong ton tai hoac khong duoc ho tro.">>
    ELSE m.text

\* faulty variant of FileError: the entry names a sheet of the file
FileErrorNamesSheet(f, m) ==
    [file |-> <<f.name, 0>>, error |-> friendly_error_message(m)]

\* {'file': Path(file_path).name, 'error': ...} of the outer handler
FileError(f, m) == [file |-> <<f.name>>, error |-> friendly_error_message(m)]

\* {'file': f"{file_name} - {sheet_name}", 'error': ...} of the fallback
SheetError(f, sheet, m) ==
    [file |-> <<f.name, sheet>>, error |-> friendly_error_message(m)]

\* the list of n created files a generate call for the sheets `unit` returns
UnitFiles(f, tmpl, unit, n) ==
    [j \in 1..n |-> [src |-> f.name, template |-> tmpl, unit |-> unit, n |-> j]]

SleepEvent(d) == [ev |-> "sleep", d |-> Seconds(d)]

\* what a generate call did: it returned a list of n files, or raised an
\* exception of message m
Returned(n) == [ok |-> TRUE, n |-> n, msg |-> <<>>]
Raised(m) == [ok |-> FALSE, n |-> 0, msg |-> <<m>>]

GenerateEvent(f, tmpl, unit, res) ==
    [ev |-> "generate", file |-> f.name, template |-> tmpl, unit |-> unit,
     res |-> res]

ConvertFileEvent(f) == [ev |-> "convert_file", file |-> f.name]

\* file_path of the running iteration of convert
file_path == files_to_process[file_idx]

InitCoord ==
    /\ input_path \in InputPaths
    /\ files_to_process = <<>>
    /\ file_idx = 0
    /\ all_files = <<>>
    /\ all_errors = <<>>
    /\ batch_plan = <<>>
    /\ batch_idx = 0
    /\ sheet_pos = 0
    /\ created_files = <<>>
    /\ errors = <<>>
    /\ coord_events = <<>>
    /\ coordPc = "start"
    /\ PlannerIdle
    /\ GenIdle
    /\ ParseIdle
    /\ WebIdle
    /\ EntryIdle
    /\ RowsIdle

\* lines 911-921 of convert: the files to process
ConvertStart ==
    /\ UNCHANGED notCoordVars
    /\ coordPc = "start"
    /\ files_to_process' = FilesToProcess(input_path)
    /\ file_idx' = 1
    /\ coordPc' = IF FilesToProcess(input_path) = <<>> THEN "returned" ELSE "file"
    /\ UNCHANGED <<input_path, all_files, all_errors, batch_plan, batch_idx,
                   sheet_pos, created_files, errors, coord_events>>

\* faulty variant of OuterHandler: the exception leaves convert_file
OuterHandlerReraises(created, errs, m) ==
    [created |-> created, errors |-> errs, pc |-> "file_raised"]

\* "except Exception as e" of convert_file (lines 456-465): one error entry
\* for the file, and the pair is returned
OuterHandler(created, errs, m) ==
    [created |-> created, errors |-> Append(errs, FileError(file_path, m)),
     pc |-> "file_done"]

\* convert_file ends in the outer handler with the exception m, having made
\* the steps evs
Fatal(m, evs) ==
    LET r == OuterHandler(<<>>, <<>>, m)
    IN /\ created_files' = r.created
       /\ errors' = r.errors
       /\ coordPc' = r.pc
       /\ coord_events' = coord_events \o <<ConvertFileEvent(file_path)>> \o evs
       /\ UNCHANGED <<input_path, files_to_process, file_idx, all_files,
                      all_errors, batch_plan, batch_idx, sheet_pos>>

\* os.makedirs(output_dir, exist_ok=True) raises (line 336)
MakedirsFails ==
    /\ UNCHANGED notCoordVars
    /\ coordPc = "file"
    /\ Fatal(ReadError, <<>>)

\* the else branch of the test of file_extension (lines 453-454)
FileUnsupported ==
    /\ UNCHANGED notCoordVars
    /\ coordPc = "file"
    /\ file_path.ext \notin {".xlsx", ".xls", ".csv"}
    /\ Fatal(UnsupportedError(file_path), <<>>)

\* pd.ExcelFile, pd.read_excel or pd.read_csv raises (lines 346-353, 434)
FileReadFails ==
    /\ UNCHANGED notCoordVars
    /\ coordPc = "file"
    /\ file_path.ext \in {".xlsx", ".xls", ".csv"}
    /\ Fatal(Wrapped(IF file_path.ext = ".csv" THEN "Loi khi doc file CSV: "
                     ELSE "Loi khi doc file Excel: ", ReadError), <<>>)

\* lines 346-357: the sheets are read and the batches planned
ExcelRead ==
    /\ UNCHANGED notCoordVars
    /\ coordPc = "file"
    /\ file_path.ext \in {".xlsx", ".xls"}
    /\ \E plan \in PlansFrom(0, file_path.sheets) : batch_plan' = plan
    /\ batch_idx' = 0
    /\ sheet_pos' = 0
    /\ created_files' = <<>>
    /\ errors' = <<>>
    /\ coordPc' = "batch"
    /\ coord_events' = Append(coord_events, ConvertFileEvent(file_path))
    /\ UNCHANGED <<input_path, files_to_process, file_idx, all_files, all_errors>>

\* faulty variant of CsvTemplate: the CSV is sent with the batch template
CsvTemplateBatch == "batch"

\* the template of the CSV request: SYSTEM_PROMPT, is_single_sheet=False
CsvTemplate == "single"

\* lines 434-449: the CSV is read and _generate_and_save returns its files
CsvSucceeds ==
    /\ UNCHANGED notCoordVars
    /\ coordPc = "file"
    /\ file_path.ext = ".csv"
    /\ \E n \in 0..MaxUnitFiles :
          /\ created_files' = UnitFiles(file_path, CsvTemplate, <<0>>, n)
          /\ coord_events' = coord_events \o
                <<ConvertFileEvent(file_path),
                  GenerateEvent(file_path, CsvTemplate, <<0>>, Returned(n))>>
    /\ errors' = <<>>
    /\ coordPc' = "file_done"
    /\ UNCHANGED <<input_path, files_to_process, file_idx, all_files,
                   all_errors, batch_plan, batch_idx, sheet_pos>>

\* lines 443-452: _generate_and_save raises, and the exception is raised again
\* as a reading error
CsvFails ==
    /\ UNCHANGED notCoordVars
    /\ coordPc = "file"
    /\ file_path.ext = ".csv"
    /\ \E m \in UnitErrors :
          Fatal(Wrapped("Loi khi doc file CSV: ", m),
                <<GenerateEvent(file_path, CsvTemplate, <<0>>, Raised(m))>>)

\* batch_indices of the running iteration of the loop over the batches
coord_batch_indices == batch_plan[batch_idx + 1]

\* faulty variant of sheet_idx: the first sheet of the batch every time
sheet_idx_first == coord_batch_indices[1]

\* sheet_idx of the running iteration of the fallback loop
sheet_idx == coord_batch_indices[sheet_pos]

\* faulty variant of BatchDelay: the first batch is delayed too
BatchDelayAlways == <<SleepEvent(batch_delay)>>

\* "if batch_idx > 0: time.sleep(self.batch_delay)" (lines 363-365)
BatchDelay == IF batch_idx > 0 THEN <<SleepEvent(batch_delay)>> ELSE <<>>

\* faulty variant of SheetDelay: the first sheet of the batch is delayed too
SheetDelayAlways == <<SleepEvent(sheet_delay)>>

\* "if sheet_idx != batch_indices[0]: time.sleep(5)" (lines 396-397)
SheetDelay ==
    IF sheet_idx # coord_batch_indices[1] THEN <<SleepEvent(sheet_delay)>> ELSE <<>>

\* faulty variant of AfterBatch: the loop over the batches is left
AfterBatchStops == "file_done"

\* where convert_file goes on once batch number batch_idx is done with: the
\* next batch, or the return of the pair
AfterBatch ==
    IF batch_idx + 1 = Len(batch_plan) THEN "file_done" ELSE "batch"

\* lines 361-383: _generate_and_save_batch returns the files of the batch
BatchSucceeds ==
    /\ UNCHANGED notCoordVars
    /\ coordPc = "batch"
    /\ \E n \in 0..MaxUnitFiles :
          /\ created_files' = created_files \o
                UnitFiles(file_path, "batch", coord_batch_indices, n)
          /\ coord_events' = coord_events \o BatchDelay \o
                <<GenerateEvent(file_path, "batch", coord_batch_indices,
                                Returned(n))>>
    /\ batch_idx' = batch_idx + 1
    /\ coordPc' = AfterBatch
    /\ UNCHANGED <<input_path, files_to_process, file_idx, all_files,
                   all_errors, batch_plan, sheet_pos, errors>>

\* lines 361-390: _generate_and_save_batch raises, and the fallback loop over
\* the sheets of the batch is entered; the message of the exception is only
\* logged
BatchFails ==
    /\ UNCHANGED notCoordVars
    /\ coordPc = "batch"
    /\ coord_events' = coord_events \o BatchDelay \o
          <<GenerateEvent(file_path, "batch", coord_batch_indices,
                          [ok |-> FALSE, n |-> 0, msg |-> <<>>])>>
    /\ sheet_pos' = 1
    /\ coordPc' = "fallback"
    /\ UNCHANGED <<input_path, files_to_process, file_idx, all_files,
                   all_errors, batch_plan, batch_idx, created_files, errors>>

\* the end of one iteration of "for sheet_idx in batch_indices"
NextSheet ==
    IF sheet_pos = Len(coord_batch_indices)
    THEN /\ sheet_pos' = 0
         /\ batch_idx' = batch_idx + 1
         /\ coordPc' = AfterBatch
    ELSE /\ sheet_pos' = sheet_pos + 1
         /\ UNCHANGED <<batch_idx, coordPc>>

\* lines 392-416: _generate_and_save returns the files of the sheet
SheetSucceeds ==
    /\ UNCHANGED notCoordVars
    /\ coordPc = "fallback"
    /\ \E n \in 0..MaxUnitFiles :
          /\ created_files' = created_files \o
                UnitFiles(file_path, "single_sheet", <<sheet_idx>>, n)
          /\ coord_events' = coord_events \o SheetDelay \o
                <<GenerateEvent(file_path, "single_sheet", <<sheet_idx>>,
                                Returned(n))>>
    /\ NextSheet
    /\ UNCHANGED <<input_path, files_to_process, file_idx, all_files,
                   all_errors, batch_plan, errors>>

\* lines 392-424: _generate_and_save raises, and the sheet gets an error entry
SheetFails ==
    /\ UNCHANGED notCoordVars
    /\ coordPc = "fallback"
    /\ \E m \in UnitErrors :
          /\ errors' = Append(errors, SheetError(file_path, sheet_idx, m))
          /\ coord_events' = coord_events \o SheetDelay \o
                <<GenerateEvent(file_path, "single_sheet", <<sheet_idx>>,
                                Raised(m))>>
    /\ NextSheet
    /\ UNCHANGED <<input_path, files_to_process, file_idx, all_files,
                   all_errors, batch_plan, created_files>>

\* faulty variant of AfterFile: a file with an error entry ends the loop
AfterFileStopsOnError ==
    IF errors # <<>> \/ file_idx = Len(files_to_process) THEN "returned"
    ELSE "file"

\* where convert goes on once file_path is done with
AfterFile ==
    IF file_idx = Len(files_to_process) THEN "returned" ELSE "file"

\* lines 926-936 of convert: the pair convert_file returned is added to the
\* lists, or an exception of convert_file is turned into an error entry
ConvertCollect ==
    /\ UNCHANGED notCoordVars
    /\ coordPc \in {"file_done", "file_raised"}
    /\ IF coordPc = "file_done"
       THEN /\ all_files' = all_files \o created_files
            /\ all_errors' = all_errors \o errors
       ELSE /\ all_files' = all_files
            /\ all_errors' = Append(all_errors,
                                    [file |-> <<file_path.name>>,
                                     error |-> <<"Loi khong xac dinh: ">>])
    /\ file_idx' = file_idx + 1
    /\ coordPc' = AfterFile
    /\ UNCHANGED <<input_path, files_to_process, batch_plan, batch_idx,
                   sheet_pos, created_files, errors, coord_events>>

NextCoord ==
    \/ ConvertStart
    \/ MakedirsFails
    \/ FileUnsupported
    \/ FileReadFails
    \/ ExcelRead
    \/ CsvSucceeds
    \/ CsvFails
    \/ BatchSucceeds
    \/ BatchFails
    \/ SheetSucceeds
    \/ SheetFails
    \/ ConvertCollect

SpecCoord == InitCoord /\ [][NextCoord]_vars

-----------------------------------------------------------------------------
(* convert called twice on the same directory.                              *)
(*                                                                         *)
(* The second call follows the return of the first one; the history keeps   *)
(* the steps of both, separated by a "convert" event that records the list  *)
(* of files the first call returned. Nothing around the program changes     *)
(* between the calls: the generation service gives the same result for the  *)
(* same request, a file that could be read can be read again, and the       *)
(* sheets of a workbook, hence its batches, are the same.                   *)
(***************************************************************************)

\* the position of the "convert" event in the history, 0 if there is none
SecondCall ==
    LET I == {i \in 1..Len(coord_events) : coord_events[i].ev = "convert"}
    IN IF I = {} THEN 0 ELSE CHOOSE i \in I : TRUE

\* the steps of the first call of convert
FirstRun ==
    IF SecondCall = 0 THEN coord_events
    ELSE SubSeq(coord_events, 1, SecondCall - 1)

\* the steps of the second call of convert
SecondRun ==
    IF SecondCall = 0 THEN <<>>
    ELSE SubSeq(coord_events, SecondCall + 1, Len(coord_events))

\* the first call could not open, read or recognise the file named f: its
\* call of convert_file ended before any generate call
FirstUnread(f) ==
    \E j \in 1..Len(FirstRun) :
        /\ FirstRun[j].ev = "convert_file"
        /\ FirstRun[j].file = f
        /\ (j = Len(FirstRun) \/ FirstRun[j + 1].ev = "convert_file")

\* the batches the first call planned for the file named f
FirstPlan(f) ==
    LET B == SelectSeq(FirstRun, LAMBDA e : /\ e.ev = "generate"
                                            /\ e.file = f
                                            /\ e.template = "batch")
    IN [i \in 1..Len(B) |-> B[i].unit]

\* the world of the second call is the world of the first one: what a step
\* of the second call meets (the new events of the history) is what the
\* first call met for the same file and the same request
SameWorld ==
    SecondCall # 0 =>
        LET new == SubSeq(coord_events', Len(coord_events) + 1,
                          Len(coord_events'))
        IN \A i \in 1..Len(new) :
              LET e == new[i] IN
                /\ e.ev = "generate" =>
                      \A j \in 1..Len(FirstRun) :
                         LET d == FirstRun[j]
                         IN (/\ d.ev = "generate" /\ d.file = e.file
                             /\ d.template = e.template /\ d.unit = e.unit)
                                => e.res = d.res
                /\ e.ev = "convert_file" =>
                      /\ FirstUnread(e.file) <=> (i = Len(new) /\ coordPc' = "file_done")
                      /\ coordPc' = "batch" => batch_plan' = FirstPlan(e.file)

\* a directory of supported files, of MaxRerunUnits units at most
InitRerun ==
    /\ InitCoord
    /\ ~input_path.isfile
    /\ \A i \in 1..Len(input_path.entries) : Units(input_path.entries[i]) > 0
    /\ SumSeq([i \in 1..Len(input_path.entries) |->
                 Units(input_path.entries[i])]) <= MaxRerunUnits

\* the step A of convert or convert_file, in an unchanged world
Unchanged(A) == A /\ SameWorld

\* convert(input_path, output_dir) is called again once it has returned
ConvertAgain ==
    /\ UNCHANGED notCoordVars
    /\ coordPc = "returned"
    /\ SecondCall = 0
    /\ coord_events' = Append(coord_events, [ev |-> "convert", files |-> all_files])
    /\ files_to_process' = <<>>
    /\ file_idx' = 0
    /\ all_files' = <<>>
    /\ all_errors' = <<>>
    /\ coordPc' = "start"
    /\ UNCHANGED <<input_path, batch_plan, batch_idx, sheet_pos, created_files,
                   errors>>

\* (the files of a directory all have a supported extension)
NextRerun ==
    \/ Unchanged(ConvertStart)
    \/ Unchanged(MakedirsFails)
    \/ Unchanged(FileReadFails)
    \/ Unchanged(ExcelRead)
    \/ Unchanged(CsvSucceeds)
    \/ Unchanged(CsvFails)
    \/ Unchanged(BatchSucceeds)
    \/ Unchanged(BatchFails)
    \/ Unchanged(SheetSucceeds)
    \/ Unchanged(SheetFails)
    \/ Unchanged(ConvertCollect)
    \/ ConvertAgain

SpecRerun == InitRerun /\ [][NextRerun]_vars

-----------------------------------------------------------------------------
(* The web endpoint POST /api/convert (convert_files of web/app.py).        *)
(*                                                                         *)
(* The upload folder is the directory input_path; the request is           *)
(* [mode, api_key], the key being the one the handler resolves from the    *)
(* request or the environment. In AI mode the handler runs                 *)
(* AIConverter.convert on the upload folder, step by step as above, against *)
(* a generation service that rejects the key: every generate call raises.  *)
(* The answer is [status, body], the body being the record that jsonify    *)
(* is given.                                                               *)
(***************************************************************************)

WebRequests == [mode : {"traditional", "ai"}, api_key : {"none", "rejected"}]

\* jsonify({'error': ...}), status
ErrorResponse(status, text) == [status |-> status, body |-> [error |-> text]]

\* faulty variant of ResponseErrors: the list of convert is dropped
ResponseErrorsDropped(errs) == <<>>

\* 'errors': errors of the body (line 227)
ResponseErrors(errs) == errs

\* lines 223-229: the body of the answer, status 200
OkResponse(files, errs, mode) ==
    [status |-> 200,
     body |-> [success |-> (mode # "ai" \/ files # <<>>),
               files |-> files,
               errors |-> ResponseErrors(errs),
               mode |-> mode]]

InitWeb ==
    /\ web_request \in WebRequests
    /\ web_response = <<>>
    /\ webPc = "request"
    /\ input_path \in {p \in InputPaths : ~p.isfile}
    /\ files_to_process = <<>>
    /\ file_idx = 0
    /\ all_files = <<>>
    /\ all_errors = <<>>
    /\ batch_plan = <<>>
    /\ batch_idx = 0
    /\ sheet_pos = 0
    /\ created_files = <<>>
    /\ errors = <<>>
    /\ coord_events = <<>>
    /\ coordPc = "idle"
    /\ PlannerIdle
    /\ GenIdle
    /\ ParseIdle
    /\ EntryIdle
    /\ RowsIdle

\* the handler answers and ends
Answer(r) ==
    /\ web_response' = <<r>>
    /\ webPc' = "answered"
    /\ UNCHANGED <<web_request, coordVars>>

\* lines 148-152: the upload folder is empty
WebNoFiles ==
    /\ UNCHANGED notWebVars
    /\ webPc = "request"
    /\ input_path.entries = <<>>
    /\ Answer(ErrorResponse(400, "Khong co file nao de convert"))

\* lines 155-161 and 232-234: clearing the output folder raises
WebClearFails ==
    /\ UNCHANGED notWebVars
    /\ webPc = "request"
    /\ input_path.entries # <<>>
    /\ Answer(ErrorResponse(500, "str(e)"))

\* lines 194-199: Converter(...).convert() returns, and errors is empty, or
\* raises
WebTraditional ==
    /\ UNCHANGED notWebVars
    /\ webPc = "request"
    /\ input_path.entries # <<>>
    /\ web_request.mode # "ai"
    /\ \E raised \in BOOLEAN :
          Answer(IF raised THEN ErrorResponse(500, "str(e)")
                 ELSE OkResponse(<<>>, <<>>, web_request.mode))

\* lines 183-184: no key in the request nor in the environment
WebNoKey ==
    /\ UNCHANGED notWebVars
    /\ webPc = "request"
    /\ input_path.entries # <<>>
    /\ web_request.mode = "ai"
    /\ web_request.api_key = "none"
    /\ Answer(ErrorResponse(400, "API Key chua duoc cau hinh"))

\* lines 186-195: AIConverter is built and its convert is called on the
\* upload folder
WebConvert ==
    /\ UNCHANGED notWebVars
    /\ webPc = "request"
    /\ input_path.entries # <<>>
    /\ web_request.mode = "ai"
    /\ web_request.api_key # "none"
    /\ webPc' = "converting"
    /\ coordPc' = "start"
    /\ UNCHANGED <<web_request, web_response, input_path, files_to_process,
                   file_idx, all_files, all_errors, batch_plan, batch_idx,
                   sheet_pos, created_files, errors, coord_events>>

\* lines 201-230: convert has returned (created_files, errors); the files of
\* the output folder are listed and the answer is built
WebAnswer ==
    /\ UNCHANGED notWebVars
    /\ webPc = "converting"
    /\ coordPc = "returned"
    /\ Answer(OkResponse(all_files, all_errors, web_request.mode))

\* (the files convert finds in a directory all have a supported extension,
\* and no generate call returns when the key is rejected)
NextWeb ==
    \/ WebNoFiles
    \/ WebClearFails
    \/ WebTraditional
    \/ WebNoKey
    \/ WebConvert
    \/ ConvertStart
    \/ MakedirsFails
    \/ FileReadFails
    \/ ExcelRead
    \/ CsvFails
    \/ BatchFails
    \/ SheetFails
    \/ ConvertCollect
    \/ WebAnswer

SpecWeb == InitWeb /\ [][NextWeb]_vars

-----------------------------------------------------------------------------
(* Error entries: the handlers of convert_file turn the message of an       *)
(* exception into an entry {file, error} (lines 418-424 and 456-463).       *)
(***************************************************************************)

\* the words of the raw messages
Words ==
    {"API key not valid", "api key not valid", "quota", "QUOTA", "429",
     "not found", "Not Found", "model", "Model", "boom"}

ModelNames == {"gemini-2.5-flash", "gemini-pro"}

\* the file being converted when the exception is caught
EntryFile == [name |-> 1, ext |-> ".xlsx", sheets |-> 1]

InitEntry ==
    /\ model_name \in ModelNames
    /\ error_msg \in SeqsUpTo(Words, MaxMsgWords)
    /\ error_entry = <<>>
    /\ PlannerIdle
    /\ GenIdle
    /\ ParseIdle
    /\ CoordIdle
    /\ WebIdle
    /\ RowsIdle

\* lines 456-463: the outer handler of convert_file
EntryForFile ==
    /\ UNCHANGED notEntryVars
    /\ error_entry = <<>>
    /\ error_entry' = <<FileError(EntryFile, [text |-> error_msg])>>
    /\ UNCHANGED <<model_name, error_msg>>

\* lines 418-424: the handler of the fallback of a sheet
EntryForSheet ==
    /\ UNCHANGED notEntryVars
    /\ error_entry = <<>>
    /\ error_entry' = <<SheetError(EntryFile, 0, [text |-> error_msg])>>
    /\ UNCHANGED <<model_name, error_msg>>

NextEntry ==
    \/ EntryForFile
    \/ EntryForSheet

SpecEntry == InitEntry /\ [][NextEntry]_vars

-----------------------------------------------------------------------------
(* Prompt building: the tables that are serialized into a prompt.           *)
(*                                                                         *)
(* A table (DataFrame) is [from, to]: its data rows from..to of the sheet,  *)
(* numbered from 1; len(df) is to - from + 1. The CSV path serializes its   *)
(* table into one prompt (lines 434-441), _merge_sheets_for_batch the       *)
(* tables of a batch into one prompt (lines 295-310), and the fallback each *)
(* table of the batch into a prompt of its own (lines 401-407).             *)
(***************************************************************************)

\* the limit of the three "if len(df) > 5000"
ROW_LIMIT == 5000

\* len(df)
RowsOf(df) == df.to - df.from + 1

\* df.head(n)
head(df, n) == [from |-> df.from, to |-> IF RowsOf(df) > n THEN df.from + n - 1
                                          ELSE df.to]

\* faulty variant of Truncated: the table is cut only from 5002 rows on
TruncatedLate(df) == IF RowsOf(df) > ROW_LIMIT + 1 THEN head(df, ROW_LIMIT) ELSE df

\* "if len(df) > 5000: df = df.head(5000)"
Truncated(df) == IF RowsOf(df) > ROW_LIMIT THEN head(df, ROW_LIMIT) ELSE df

\* the numbers of rows of the tables read: few, and about the limit
RowCounts ==
    0..MaxRowsOff \cup (ROW_LIMIT - MaxRowsOff)..(ROW_LIMIT + MaxRowsOff)

Tables == {[from |-> 1, to |-> n] : n \in RowCounts}

InitRows ==
    /\ rowsPc \in {"csv", "batch", "fallback"}
    /\ dfs \in (IF rowsPc = "csv" THEN [1..1 -> Tables]
                ELSE UNION {[1..k -> Tables] : k \in 1..MaxBatchSize})
    /\ prompts = <<>>
    /\ PlannerIdle
    /\ GenIdle
    /\ ParseIdle
    /\ CoordIdle
    /\ WebIdle
    /\ EntryIdle

\* lines 436-441: content_str of the CSV
CsvPrompt ==
    /\ UNCHANGED notRowsVars
    /\ rowsPc = "csv"
    /\ prompts' = <<<<Truncated(dfs[1])>>>>
    /\ rowsPc' = "done"
    /\ UNCHANGED dfs

\* _merge_sheets_for_batch: every table of the batch, in order
MergePrompt ==
    /\ UNCHANGED notRowsVars
    /\ rowsPc = "batch"
    /\ prompts' = <<[i \in 1..Len(dfs) |-> Truncated(dfs[i])]>>
    /\ rowsPc' = "done"
    /\ UNCHANGED dfs

\* lines 401-407: content_str of the next sheet of the fallback loop
FallbackPrompt ==
    /\ UNCHANGED notRowsVars
    /\ rowsPc = "fallback"
    /\ prompts' = Append(prompts, <<Truncated(dfs[Len(prompts) + 1])>>)
    /\ rowsPc' = IF Len(prompts) + 1 = Len(dfs) THEN "done" ELSE "fallback"
    /\ UNCHANGED dfs

NextRows ==
    \/ CsvPrompt
    \/ MergePrompt
    \/ FallbackPrompt

SpecRows == InitRows /\ [][NextRows]_vars

-----------------------------------------------------------------------------
(* convert_file with the retry loops of its generate calls: one file, the  *)
(* loop over its batches, the fallback over the sheets of a failed batch,  *)
(* and within each generate call the loop over the attempts.               *)
(* `events` holds the API calls and the sleeps of the running batch.       *)

\* the files convert_file is run on
CallFiles ==
    {[name |-> 1, ext |-> ".xlsx", sheets |-> n] : n \in 1..MaxCallSheets}
    \cup {[name |-> 1, ext |-> ".csv", sheets |-> 1]}

\* the errors generate_content raises: a rate limit and another error
CallErrors == {txt \in ErrorTexts : ~txt.rle /\ txt.retry_in = -1}

\* the sheets the running generate call is made for
call_unit ==
    IF coordPc = "batch" THEN coord_batch_indices
    ELSE IF coordPc = "fallback" THEN <<sheet_idx>>
    ELSE <<0>>

\* one call of self.client.models.generate_content
ApiCall(ok) ==
    [ev |-> "call", ok |-> ok, template |-> template, unit |-> call_unit]

\* str(e) of the exception a generate call raised
MessageOf(e) ==
    IF IsRateLimit(e) THEN [text |-> <<"429", "quota">>]
    ELSE [text |-> <<"boom">>]

\* the exception the parser of _generate_and_save raises on a response
ParserError == [text |-> <<"boom">>]

\* the retry loop of the next generate call is entered
StartUnit(tmpl, evs) ==
    /\ template' = tmpl
    /\ attempt' = 0
    /\ response' = <<>>
    /\ last_error' = <<>>
    /\ raised_error' = <<>>
    /\ events' = evs
    /\ genPc' = "loop"

\* convert_file has no generate call left to make
NoUnitLeft ==
    /\ genPc' = "idle"
    /\ UNCHANGED <<template, attempt, response, last_error, raised_error,
                   events>>

CallsFixed ==
    UNCHANGED <<planVars, parseVars, webVars, entryVars, rowsVars, input_path,
                files_to_process, file_idx, all_files, all_errors,
                coord_events>>

InitCalls ==
    /\ \E f \in CallFiles :
          /\ input_path = [isfile |-> TRUE, file |-> f]
          /\ files_to_process = <<f>>
          /\ batch_plan \in (IF f.ext = ".csv" THEN {<<>>}
                             ELSE PlansFrom(0, f.sheets))
          /\ coordPc = (IF f.ext = ".csv" THEN "file" ELSE "batch")
          /\ template = (IF f.ext = ".csv" THEN CsvTemplate ELSE "batch")
    /\ file_idx = 1
    /\ all_files = <<>>
    /\ all_errors = <<>>
    /\ batch_idx = 0
    /\ sheet_pos = 0
    /\ created_files = <<>>
    /\ errors = <<>>
    /\ coord_events = <<>>
    /\ attempt = 0
    /\ response = <<>>
    /\ last_error = <<>>
    /\ raised_error = <<>>
    /\ events = <<>>
    /\ genPc = "loop"
    /\ PlannerIdle
    /\ ParseIdle
    /\ WebIdle
    /\ EntryIdle
    /\ RowsIdle

\* one iteration of the retry loop in which generate_content returns
CallsAttemptSucceeds ==
    /\ CallsFixed
    /\ genPc = "loop"
    /\ ~LoopExhausted(attempt)
    /\ events' = events \o BackoffSleep(attempt) \o <<ApiCall(TRUE)>>
    /\ response' = <<NumCalls + 1>>
    /\ genPc' = "after_loop"
    /\ UNCHANGED <<template, attempt, last_error, raised_error, batch_plan,
                   batch_idx, sheet_pos, created_files, errors, coordPc>>

\* one iteration of the retry loop in which generate_content raises
CallsAttemptFails ==
    /\ CallsFixed
    /\ genPc = "loop"
    /\ ~LoopExhausted(attempt)
    /\ \E txt \in CallErrors :
         LET e == ErrorOf(txt, NumCalls + 1)
             h == ExceptBlock(attempt, e)
         IN
           /\ events' = events \o BackoffSleep(attempt) \o <<ApiCall(FALSE)>>
                          \o h.sleep
           /\ last_error' = NewLastError(last_error, e)
           /\ IF h.raise
              THEN /\ raised_error' = <<e>>
                   /\ genPc' = "raised"
                   /\ UNCHANGED attempt
              ELSE /\ attempt' = attempt + 1
                   /\ genPc' = IF LoopExhausted(attempt + 1)
                               THEN "after_loop" ELSE "loop"
                   /\ UNCHANGED raised_error
    /\ UNCHANGED <<template, response, batch_plan, batch_idx, sheet_pos,
                   created_files, errors, coordPc>>

\* "if response is None: raise last_error" after the loop
CallsRaiseLastError ==
    /\ CallsFixed
    /\ genPc = "after_loop"
    /\ response = <<>>
    /\ raised_error' = last_error
    /\ genPc' = "raised"
    /\ UNCHANGED <<template, attempt, response, last_error, events,
                   batch_plan, batch_idx, sheet_pos, created_files, errors,
                   coordPc>>

\* faulty variant of HasResponse: the response never reaches the parser, the
\* generate call hangs on it
HasResponseNever == FALSE

\* the generate call has a response for its parser
HasResponse == genPc = "after_loop" /\ response # <<>>

\* the generate call that comes after batch number batch_idx: the request of
\* the next batch, after the delay between the batches
AfterBatchUnit ==
    IF AfterBatch = "batch" THEN StartUnit("batch", <<SleepEvent(batch_delay)>>)
    ELSE NoUnitLeft

\* the generate call that comes after the sheet of the fallback loop: the
\* next sheet of the batch, after the delay between the sheets, or the next
\* batch
AfterSheetUnit ==
    IF sheet_pos < Len(coord_batch_indices)
    THEN StartUnit("single_sheet", Append(events, SleepEvent(sheet_delay)))
    ELSE AfterBatchUnit

\* lines 361-383: _generate_and_save_batch returns the files of the batch
CallsBatchReturns ==
    /\ CallsFixed
    /\ coordPc = "batch"
    /\ HasResponse
    /\ \E n \in 0..MaxUnitFiles :
          created_files' = created_files \o
              UnitFiles(file_path, "batch", coord_batch_indices, n)
    /\ batch_idx' = batch_idx + 1
    /\ coordPc' = AfterBatch
    /\ AfterBatchUnit
    /\ UNCHANGED <<batch_plan, sheet_pos, errors>>

\* faulty variant of CallsBatchRaises: the fallback is entered after a batch
\* request that returned as well
CallsBatchRaisesOrReturns ==
    /\ CallsFixed
    /\ coordPc = "batch"
    /\ genPc = "raised" \/ HasResponse
    /\ sheet_pos' = 1
    /\ coordPc' = "fallback"
    /\ StartUnit("single_sheet", events)
    /\ UNCHANGED <<batch_plan, batch_idx, created_files, errors>>

\* lines 386-392: _generate_and_save_batch raises, the fallback is entered
CallsBatchRaises ==
    /\ CallsFixed
    /\ coordPc = "batch"
    /\ genPc = "raised"
    /\ sheet_pos' = 1
    /\ coordPc' = "fallback"
    /\ StartUnit("single_sheet", events)
    /\ UNCHANGED <<batch_plan, batch_idx, created_files, errors>>

\* lines 392-419: _generate_and_save returns the files of the sheet
CallsSheetReturns ==
    /\ CallsFixed
    /\ coordPc = "fallback"
    /\ HasResponse
    /\ \E n \in 0..MaxUnitFiles :
          created_files' = created_files \o
              UnitFiles(file_path, "single_sheet", <<sheet_idx>>, n)
    /\ NextSheet
    /\ AfterSheetUnit
    /\ UNCHANGED <<batch_plan, errors>>

\* lines 420-424: _generate_and_save raises, in its retry loop or in its
\* parser, and the sheet gets an error entry
CallsSheetRaises ==
    /\ CallsFixed
    /\ coordPc = "fallback"
    /\ \/ /\ genPc = "raised"
          /\ errors' = Append(errors, SheetError(file_path, sheet_idx,
                                                 MessageOf(raised_error[1])))
       \/ /\ HasResponse
          /\ errors' = Append(errors, SheetError(file_path, sheet_idx,
                                                 ParserError))
    /\ NextSheet
    /\ AfterSheetUnit
    /\ UNCHANGED <<batch_plan, created_files>>

\* lines 443-449: _generate_and_save returns the files of the CSV
CallsCsvReturns ==
    /\ CallsFixed
    /\ coordPc = "file"
    /\ HasResponse
    /\ \E n \in 0..MaxUnitFiles :
          created_files' = UnitFiles(file_path, CsvTemplate, <<0>>, n)
    /\ coordPc' = "file_done"
    /\ NoUnitLeft
    /\ UNCHANGED <<batch_plan, batch_idx, sheet_pos, errors>>

\* lines 451-465: _generate_and_save raises, the exception is raised again as
\* a reading error and the outer handler makes the entry of the file
CallsCsvRaises ==
    /\ CallsFixed
    /\ coordPc = "file"
    /\ \E m \in (IF genPc = "raised" THEN {MessageOf(raised_error[1])}
                 ELSE IF HasResponse THEN {ParserError} ELSE {}) :
          LET r == OuterHandler(created_files, errors,
                                Wrapped("Loi khi doc file CSV: ", m))
          IN /\ created_files' = r.created
             /\ errors' = r.errors
             /\ coordPc' = r.pc
    /\ NoUnitLeft
    /\ UNCHANGED <<batch_plan, batch_idx, sheet_pos>>

NextCalls ==
    \/ CallsAttemptSucceeds
    \/ CallsAttemptFails
    \/ CallsRaiseLastError
    \/ CallsBatchReturns
    \/ CallsBatchRaises
    \/ CallsSheetReturns
    \/ CallsSheetRaises
    \/ CallsCsvReturns
    \/ CallsCsvRaises

SpecCalls == InitCalls /\ [][NextCalls]_vars

\* every step of convert_file that can be taken is taken in the end: the
\* process runs on, and time.sleep and generate_content return or raise
SpecCallsFair == SpecCalls /\ WF_vars(NextCalls)

-----------------------------------------------------------------------------
(* Claims about the Batch Planner, checked under SpecPlanner *)

\* the estimated cost of a batch: the instruction template plus its sheets
BatchCost(b) ==
    system_prompt_tokens
      + SumSeq([k \in 1..Len(b) |-> sheets_data[b[k] + 1] \div avg_chars_per_token])

\* C1: the batches returned by _calculate_batch_size are non-empty and
\* partition the table indices: concatenated in order they are 0,1,...,n-1,
\* no index omitted or duplicated.
C1_BatchesPartitionTables ==
    planPc = "done" =>
        /\ \A k \in 1..Len(batches) : batches[k] # <<>>
        /\ Flatten(batches) = [k \in 1..Len(sheets_data) |-> k - 1]

C1_Witness ==
    /\ planPc = "done"
    /\ Len(sheets_data) = MaxSheets
    /\ Len(batches) = 2
    /\ Len(batches[1]) = 2

\* C2: every returned batch of two or more tables costs at most
\* max_tokens_per_batch (template plus sheets); only a batch of exactly one
\* table may exceed the budget.
C2_MultiTableBatchWithinBudget ==
    planPc = "done" =>
        \A k \in 1..Len(batches) :
            Len(batches[k]) >= 2 => BatchCost(batches[k]) <= max_tokens_per_batch

C2_Witness ==
    /\ planPc = "done"
    /\ \E k \in 1..Len(batches) :
          /\ Len(batches[k]) >= 2
          /\ BatchCost(batches[k]) = max_tokens_per_batch
    /\ \E k \in 1..Len(batches) :
          /\ Len(batches[k]) = 1
          /\ BatchCost(batches[k]) > max_tokens_per_batch

\* C3: no returned batch holds more than max_batch_size indices, and with
\* max_batch_size = 1 the n tables give the n batches [0],[1],...,[n-1].
C3_BatchSizeBounded ==
    planPc = "done" =>
        /\ \A k \in 1..Len(batches) : Len(batches[k]) <= max_batch_size
        /\ max_batch_size = 1 =>
              batches = [k \in 1..Len(sheets_data) |-> <<k - 1>>]

C3_Witness ==
    /\ planPc = "done"
    /\ max_batch_size = 1
    /\ Len(sheets_data) = MaxSheets
    /\ batches = [k \in 1..MaxSheets |-> <<k - 1>>]
    /\ BatchCost(Flatten(batches)) <= max_tokens_per_batch

-----------------------------------------------------------------------------
(* Claims about the Generation Client, checked under SpecGen *)

IsCall(p) == events[p].ev = "call"

IsFailedCall(p) == events[p].ev = "call" /\ ~events[p].ok

\* the durations slept so far, in order, in tenths of a second
Sleeps ==
    LET s == SelectSeq(events, LAMBDA x : x.ev = "sleep")
    IN [k \in 1..Len(s) |-> s[k].d]

C6_Scenario ==
    /\ Len(events) >= 1
    /\ IsFailedCall(1)
    /\ events[1].err.quota
    /\ events[1].err.retry_in = 2
    /\ \E p \in 1..Len(events) : IsCall(p) /\ events[p].n = 2 /\ events[p].ok

C7_SuccessEndsLoop ==
    /\ NumCalls <= max_retries
    /\ \A p \in 1..Len(events) :
          (IsCall(p) /\ events[p].ok) =>
              /\ p = Len(events)
              /\ response = <<events[p].n>>
              /\ genPc \in {"after_loop", "responded"}
    /\ response # <<>> =>
          /\ Len(events) >= 1
          /\ IsCall(Len(events))
          /\ events[Len(events)].ok

C7_Witness ==
    /\ genPc = "responded"
    /\ NumCalls = max_retries
    /\ response = <<max_retries>>

\* C8: when all max_retries attempts fail, the error propagated is the one
\* the last attempt raised.
C8_LastErrorPropagated ==
    (genPc = "raised" /\ NumCalls = max_retries) =>
        \A p \in 1..Len(events) :
            (IsCall(p) /\ events[p].n = max_retries) =>
                (~events[p].ok /\ raised_error = <<events[p].err>>)

C8_Witness ==
    /\ genPc = "raised"
    /\ NumCalls = max_retries
    /\ IsFailedCall(1)
    /\ events[1].err.retry_in = 2
    /\ ~raised_error[1].quota
    /\ raised_error[1].retry_in = -1

-----------------------------------------------------------------------------
(* Claims about the Response Parser, checked under SpecParse *)

\* C9: the Response Parser never fails: for every raw response text both the
\* single-table parser and the batch parser return a list of written files
\* instead of raising.
C9_ParserNeverRaises ==
    parsePc # "raised" /\ parse_exc = "none"

\* the raw response is a valid JSON object with a `files` list whose entries
\* are dicts with a string filename and a string content
C10_FilesListResponse ==
    /\ response_text.lex \in {<<"JSON">>, <<"ws", "JSON", "ws">>}
    /\ response_text.val.t = "obj"
    /\ "files" \in response_text.val.keys
    /\ response_text.val.m["files"].t = "list"
    /\ \A k \in 1..Len(response_text.val.m["files"].items) :
          LET e == response_text.val.m["files"].items[k] IN
            /\ e.t = "obj"
            /\ e.keys = {"filename", "content"}
            /\ e.m["filename"].t = "str"
            /\ e.m["content"].t = "str"

C10_Entries == response_text.val.m["files"].items

\* an entry's file name after normalization: ".md" added when missing and,
\* in the batch parser, base_name and "_" put in front unless already there
C10_NormalizedName(e) ==
    LET f == e.m["filename"].s
        n == Len(f)
        g == IF n >= 3 /\ f[n - 2] = "." /\ f[n - 1] = "m" /\ f[n] = "d"
             THEN f ELSE f \o <<".", "m", "d">>
    IN IF parser = "batch"
          /\ ~(Len(g) >= Len(base_name)
               /\ \A i \in 1..Len(base_name) : g[i] = base_name[i])
       THEN base_name \o <<"_">> \o g
       ELSE g

\* C10 (as stated): for a valid JSON object with a `files` list the parser
\* returns exactly one written file per entry, in the order of the list,
\* under the entries' normalized file names.
C10_OneFilePerEntry ==
    (parsePc # "start" /\ C10_FilesListResponse) =>
        /\ parsePc = "returned"
        /\ returned = [k \in 1..Len(C10_Entries) |->
                         C10_NormalizedName(C10_Entries[k])]

\* C10 (amended): for a valid JSON object with a `files` list the parser
\* returns exactly one written file per entry whose content is not empty, in
\* the order of the list, under the entries' normalized file names; entries
\* with empty content are skipped.
C10_OneFilePerNonEmptyEntry ==
    (parsePc # "start" /\ C10_FilesListResponse) =>
        LET kept == SelectSeq(C10_Entries, LAMBDA e : e.m["content"].s # <<>>)
        IN /\ parsePc = "returned"
           /\ returned = [k \in 1..Len(kept) |-> C10_NormalizedName(kept[k])]
           /\ Len(writes) = Len(kept)
           /\ \A k \in 1..Len(kept) :
                 /\ writes[k].path = returned[k]
                 /\ writes[k].content.lex = kept[k].m["content"].s

C10_Witness ==
    /\ parsePc = "returned"
    /\ parser = "batch"
    /\ C10_FilesListResponse
    /\ Len(C10_Entries) = 2
    /\ C10_Entries[1].m["filename"].s = <<"t", ".", "m", "d">>
    /\ C10_Entries[1].m["content"].s = <<"d">>
    /\ C10_Entries[2].m["filename"].s = <<"s">>
    /\ C10_Entries[2].m["content"].s = <<"c">>
    /\ returned = << <<"b", "_", "t", ".", "m", "d">>,
                     <<"b", "_", "s", ".", "m", "d">> >>

\* the raw response is plain unstructured text: no step of the extraction
\* cascade yields a structured object
C11_PlainText == ExtractData(response_text).t # "obj"

\* the raw text with a leading code-fence mark (and the whitespace after it)
\* and a trailing code-fence mark (and the whitespace before it) removed
C11_FenceStripped ==
    LET lex == response_text.lex
        a == IF lex # <<>> /\ lex[1] \in {"fence", "fence_json", "fence_markdown"}
             THEN TrimLeft(SubSeq(lex, 2, Len(lex))) ELSE lex
    IN IF a # <<>> /\ a[Len(a)] = "fence"
       THEN TrimRight(SubSeq(a, 1, Len(a) - 1)) ELSE a

\* C11 (as stated): for a raw response that is plain unstructured text the
\* parser returns exactly one file, and the content written to it is the raw
\* text with its leading/trailing code-fence wrapper stripped.
C11_PlainTextOneStrippedFile ==
    (parsePc # "start" /\ C11_PlainText) =>
        /\ parsePc = "returned"
        /\ Len(returned) = 1
        /\ Len(writes) = 1
        /\ writes[1].path = returned[1]
        /\ writes[1].content.lex = C11_FenceStripped

-----------------------------------------------------------------------------
(* Claims about the Conversion Coordinator, checked under SpecCoord *)

\* the steps of the running call of convert_file: what follows the last
\* "convert_file" event of the history
CallEvents ==
    LET I == {i \in 1..Len(coord_events) : coord_events[i].ev = "convert_file"}
        last == CHOOSE i \in I : \A j \in I : j <= i
    IN IF I = {} THEN <<>>
       ELSE SubSeq(coord_events, last + 1, Len(coord_events))

\* the generate calls among the steps evs, in order
Generates(evs) == SelectSeq(evs, LAMBDA e : e.ev = "generate")

IsErrorEntry(e) == DOMAIN e = {"file", "error"}

C13_UnsupportedExtension ==
    (coordPc = "file_done" /\ file_path.ext \notin {".xlsx", ".xls", ".csv"}) =>
        /\ created_files = <<>>
        /\ Len(errors) = 1
        /\ IsErrorEntry(errors[1])
        /\ errors[1].file = <<file_path.name>>
        /\ Generates(CallEvents) = <<>>
        /\ \A i \in 1..Len(coord_events) : coord_events[i].ev # "generate"

C13_Witness ==
    /\ coordPc = "file_done"
    /\ file_path.ext = ".txt"
    /\ errors = <<[file |-> <<file_path.name>>,
                   error |-> <<"Unsupported file type: ", ".txt">>]>>

\* the number of elements of the sequence s that satisfy P
CountIn(s, P(_)) == Cardinality({i \in 1..Len(s) : P(s[i])})

\* the created files that the individual request for the sheet s gave
C14_FilesOfSheet(s) ==
    CountIn(created_files,
            LAMBDA f : f.template = "single_sheet" /\ f.unit = <<s>>)

\* the error entries `<file name> - <sheet s>`
C14_EntriesOfSheet(s) ==
    CountIn(errors, LAMBDA e : e.file = <<file_path.name, s>>)

\* after a batch request that raised come the individual requests for the
\* sheets of that batch, each once and in batch order, and then the next
\* batch; no sheet is requested individually otherwise
C14_ExactlyTheSheetsOfTheBatch ==
    LET G == Generates(CallEvents) IN
      /\ \A i \in 1..Len(G) :
            (G[i].template = "batch" /\ ~G[i].res.ok) =>
                LET b == G[i].unit IN
                  /\ i + Len(b) <= Len(G)
                  /\ \A j \in 1..Len(b) :
                        /\ G[i + j].template = "single_sheet"
                        /\ G[i + j].unit = <<b[j]>>
                  /\ i + Len(b) < Len(G) => G[i + Len(b) + 1].template = "batch"
      /\ \A i \in 1..Len(G) :
            G[i].template = "single_sheet" =>
                /\ \E p \in 1..(i - 1) :
                      /\ G[p].template = "batch" /\ ~G[p].res.ok
                      /\ i - p <= Len(G[p].unit)
                      /\ G[p].unit[i - p] = G[i].unit[1]
                /\ \A k \in 1..Len(G) :
                      (G[k].template = "single_sheet" /\ G[k].unit = G[i].unit)
                          => k = i

RECURSIVE FilesOfCalls(_)
FilesOfCalls(G) ==
    IF G = <<>> THEN <<>>
    ELSE LET e == Head(G)
         IN (IF e.res.ok
             THEN [j \in 1..e.res.n |->
                     [src |-> e.file, template |-> e.template, unit |-> e.unit,
                      n |-> j]]
             ELSE <<>>) \o FilesOfCalls(Tail(G))

\* the `file` fields of the entries for the individual sheet requests of G
\* that raised, in the order of the calls
RECURSIVE SheetFailuresOfCalls(_)
SheetFailuresOfCalls(G) ==
    IF G = <<>> THEN <<>>
    ELSE LET e == Head(G)
         IN (IF ~e.res.ok /\ e.template = "single_sheet"
             THEN <<<<e.file, e.unit[1]>>>>
             ELSE <<>>) \o SheetFailuresOfCalls(Tail(G))

\* C15: a failing unit does not stop the run: when convert_file returns for
\* a workbook that was read, every batch of the plan has been requested, in
\* order, whatever failed before it; every sheet of every failed batch has
\* been requested individually, whatever sheet failed before it; and
\* created_files and errors hold the files and the error entries of all of
\* these requests.
C15_FailureDoesNotStopTheRun ==
    (coordPc = "file_done" /\ Generates(CallEvents) # <<>>
        /\ file_path.ext \in {".xlsx", ".xls"}) =>
        LET G == Generates(CallEvents)
            B == SelectSeq(G, LAMBDA e : e.template = "batch")
        IN /\ [i \in 1..Len(B) |-> B[i].unit] = batch_plan
           /\ \A i \in 1..Len(B) :
                 ~B[i].res.ok =>
                     \A j \in 1..Len(B[i].unit) :
                        \E k \in 1..Len(G) :
                           /\ G[k].template = "single_sheet"
                           /\ G[k].unit = <<B[i].unit[j]>>
           /\ created_files = FilesOfCalls(G)
           /\ [i \in 1..Len(errors) |-> errors[i].file] = SheetFailuresOfCalls(G)

\* three sheets planned as [0, 1], [2]: the first batch fails, sheet 0 fails,
\* sheet 1 gives a file, and the second batch still gives its file
C15_Witness ==
    /\ coordPc = "file_done"
    /\ batch_plan = << <<0, 1>>, <<2>> >>
    /\ Len(created_files) = 2
    /\ created_files[1].unit = <<1>>
    /\ created_files[2].unit = <<2>>
    /\ created_files[2].template = "batch"
    /\ Len(errors) = 1
    /\ errors[1].file = <<file_path.name, 0>>

\* C16: for a CSV input that could be read, convert_file makes exactly one
\* generate call, with the single-table template and for the one table, and
\* no other step (no batch request, no individual sheet request, no delay);
\* if that call raises, convert_file returns no file and exactly one error
\* entry, for the whole file; if it returns, its files and no error entry.
C16_CsvOneRequest ==
    (coordPc = "file_done" /\ file_path.ext = ".csv") =>
        LET G == Generates(CallEvents) IN
          /\ CallEvents = G
          /\ Len(G) <= 1
          /\ G = <<>> => /\ created_files = <<>>
                         /\ Len(errors) = 1
                         /\ errors[1].file = <<file_path.name>>
          /\ G # <<>> =>
                /\ G[1].template = "single"
                /\ G[1].unit = <<0>>
                /\ IF G[1].res.ok
                   THEN /\ Len(created_files) = G[1].res.n
                        /\ errors = <<>>
                   ELSE /\ created_files = <<>>
                        /\ Len(errors) = 1
                        /\ IsErrorEntry(errors[1])
                        /\ errors[1].file = <<file_path.name>>

\* a CSV whose request fails on the quota
C16_Witness ==
    /\ coordPc = "file_done"
    /\ file_path.ext = ".csv"
    /\ Len(CallEvents) = 1
    /\ ~CallEvents[1].res.ok
    /\ created_files = <<>>
    /\ Len(errors) = 1
    /\ errors[1].file = <<file_path.name>>
    /\ errors[1].error = QUOTA_MESSAGE

\* the steps "convert_file" of the history: the files it was called for
C17_Calls ==
    LET C == SelectSeq(coord_events, LAMBDA e : e.ev = "convert_file")
    IN [i \in 1..Len(C) |-> C[i].file]

\* the `file` fields of the error entries that the steps evs lead to, in
\* order: a call of convert_file that ends before any generate call, a CSV
\* request that raises, an individual sheet request that raises
RECURSIVE C17_FailuresOf(_)
C17_FailuresOf(evs) ==
    IF evs = <<>> THEN <<>>
    ELSE LET e == Head(evs)
             fatal == /\ e.ev = "convert_file"
                      /\ (Len(evs) = 1 \/ evs[2].ev = "convert_file")
             csv == e.ev = "generate" /\ e.template = "single" /\ ~e.res.ok
             sheet == e.ev = "generate" /\ e.template = "single_sheet"
                      /\ ~e.res.ok
         IN (IF fatal \/ csv THEN <<<<e.file>>>>
             ELSE IF sheet THEN <<<<e.file, e.unit[1]>>>>
             ELSE <<>>) \o C17_FailuresOf(Tail(evs))

\* C17: convert over a directory calls convert_file once for every file of
\* the directory with a supported extension and for no other, a failure of
\* one file never keeps a later file from being converted, and the lists it
\* returns are the created files and the error entries of all the files, in
\* processing order.
C17_DirectoryContinuesPastFailures ==
    (coordPc = "returned" /\ ~input_path.isfile) =>
        /\ Len(C17_Calls) = Len(files_to_process)
        /\ \A i \in 1..Len(C17_Calls) : C17_Calls[i] = files_to_process[i].name
        /\ \A k \in 1..Len(input_path.entries) :
              LET f == input_path.entries[k] IN
                Cardinality({i \in 1..Len(C17_Calls) : C17_Calls[i] = f.name})
                    = IF f.ext \in {".xlsx", ".xls", ".csv"} THEN 1 ELSE 0
        /\ all_files = FilesOfCalls(Generates(coord_events))
        /\ [i \in 1..Len(all_errors) |-> all_errors[i].file]
              = C17_FailuresOf(coord_events)
        /\ \A i \in 1..Len(all_errors) : IsErrorEntry(all_errors[i])

\* a directory of a CSV and a workbook: the workbook, taken first, cannot be
\* read, and the CSV after it still gives a file
C17_Witness ==
    /\ coordPc = "returned"
    /\ ~input_path.isfile
    /\ Len(input_path.entries) = 2
    /\ input_path.entries[1].ext = ".csv"
    /\ input_path.entries[2].ext = ".xlsx"
    /\ C17_Calls = <<2, 1>>
    /\ Len(all_errors) = 1
    /\ all_errors[1].file = <<2>>
    /\ Len(all_files) = 1
    /\ all_files[1].src = 1

-----------------------------------------------------------------------------
(* Further claims about the Response Parser, checked under SpecParse *)

\* C18: every file the parsers write has a name ending in ".md", whether it
\* comes from an entry of a single-table response, from an entry of a batch
\* response or from the save of the whole text.
C18_WrittenNamesEndInMd ==
    \A i \in 1..Len(writes) :
        LET p == writes[i].path
        IN /\ Len(p) >= 3
           /\ p[Len(p) - 2] = "."
           /\ p[Len(p) - 1] = "m"
           /\ p[Len(p)] = "d"

\* the single-table parser on a response with one entry, named "s", writes
\* and returns "s.md"
C18_Witness ==
    /\ parsePc = "returned"
    /\ parser = "single"
    /\ ExtractData(response_text).t = "obj"
    /\ Len(writes) = 1
    /\ writes[1].path = <<"s", ".", "m", "d">>
    /\ returned = << <<"s", ".", "m", "d">> >>

\* C19 (as stated): every file written has a content that is not empty, on
\* every path, the save of the whole text included.
C19_NoEmptyFileWritten ==
    \A i \in 1..Len(writes) : writes[i].content.lex # <<>>

\* C20 (as stated): every file name taken from a parsed response is prefixed
\* with the base name unless it starts with it already, in the batch parser
\* and in the single-table parser: every written file name starts with
\* base_name.
C20_WrittenNamesStartWithBase ==
    \A i \in 1..Len(writes) :
        LET p == writes[i].path
        IN /\ Len(p) >= Len(base_name)
           /\ \A k \in 1..Len(base_name) : p[k] = base_name[k]

\* C21 (as stated): for a CSV, whose response goes to the single-table parser
\* with the stem of the file as base_name, the file written when the
\* generation succeeded is named <base_name>.md, whatever file name the
\* response proposes.
C21_CsvFileNamedAfterBase ==
    (parsePc = "returned" /\ parser = "single") =>
        \A i \in 1..Len(writes) : writes[i].path = base_name \o <<".", "m", "d">>

-----------------------------------------------------------------------------
(* Claim about two calls of convert, checked under SpecRerun *)

\* C22: when convert is run twice on the same unchanged directory and the
\* generation service gives the same result for the same request, the list
\* of created files the second run returns is the list the first run
\* returned.
C22_SameOutputNames ==
    (coordPc = "returned" /\ SecondCall # 0) =>
        all_files = coord_events[SecondCall].files

\* a workbook of two sheets in one batch, in both runs: the batch fails,
\* sheet 0 fails and sheet 1 gives a file
C22_Witness ==
    /\ coordPc = "returned"
    /\ SecondCall # 0
    /\ Len(all_files) = 1
    /\ all_files[1].unit = <<1>>
    /\ all_files[1].template = "single_sheet"
    /\ Len(Generates(SecondRun)) = 3
    /\ ~Generates(SecondRun)[1].res.ok
    /\ ~Generates(SecondRun)[2].res.ok
    /\ Len(all_errors) = 1

-----------------------------------------------------------------------------
(* Further claims about the Generation Client, checked under SpecGen *)

\* the API calls of the history, in order: what the service answered
C23_Outcomes == SelectSeq(events, LAMBDA p : p.ev = "call")

\* the run of the retry loop of the function tmpl ("single" or "batch") on
\* the answers outs, from attempt a on, with the steps evs made and the last
\* error `last` so far: the steps it makes and how it ends
RECURSIVE C23_Run(_, _, _, _, _)
C23_Run(tmpl, outs, a, evs, last) ==
    IF LoopExhausted(a)
    THEN [events |-> evs, attempts |-> a, end |-> "raised", value |-> last]
    ELSE IF outs = <<>>
    THEN [events |-> evs, attempts |-> a, end |-> "running", value |-> last]
    ELSE LET o == Head(outs) IN
         IF o.ok
         THEN [events |-> evs \o BackoffSleep(a) \o <<o>>, attempts |-> a + 1,
               end |-> "responded", value |-> <<o.n>>]
         ELSE LET h == IF tmpl = "batch" THEN ExceptBatch(a, o.err)
                       ELSE ExceptSingle(a, o.err)
                  now == evs \o BackoffSleep(a) \o <<o>> \o h.sleep
              IN IF h.raise
                 THEN [events |-> now, attempts |-> a + 1, end |-> "raised",
                       value |-> <<o.err>>]
                 ELSE C23_Run(tmpl, Tail(outs), a + 1, now, <<o.err>>)

\* C23: the retry loops of _generate_and_save and _generate_and_save_batch
\* are the same state machine: on every sequence of answers of the service
\* they make the same attempts and the same sleeps in the same order and end
\* in the same response or the same raised error; and that run is the one
\* the function at hand has made.
C23_LoopsAreTheSame ==
    genPc \in {"raised", "responded"} =>
        LET s == C23_Run("single", C23_Outcomes, 0, <<>>, <<>>)
            b == C23_Run("batch", C23_Outcomes, 0, <<>>, <<>>)
        IN /\ s = b
           /\ s.events = events
           /\ s.end = genPc
           /\ s.value = (IF genPc = "raised" THEN raised_error ELSE response)

\* the batch function: a rate-limit error with the hint "retry in 2s", a
\* rate-limit error with no hint, then an error of another kind, raised at once
C23_Witness ==
    /\ genPc = "raised"
    /\ template = "batch"
    /\ Len(C23_Outcomes) = 3
    /\ C23_Outcomes[1].err.quota /\ C23_Outcomes[1].err.retry_in = 2
    /\ C23_Outcomes[2].err.quota /\ C23_Outcomes[2].err.retry_in = -1
    /\ ~C23_Outcomes[3].err.quota
    /\ raised_error = <<C23_Outcomes[3].err>>
    /\ Len(events) = 6

-----------------------------------------------------------------------------
(* Claims about the web endpoint *)

\* the generation service was asked during the request, and rejected the key
C24_KeyRejected ==
    /\ web_request.mode = "ai"
    /\ web_request.api_key = "rejected"
    /\ Generates(coord_events) # <<>>
    /\ \A i \in 1..Len(coord_events) :
          coord_events[i].ev = "generate" => ~coord_events[i].res.ok

\* C24: the answer to an AI-mode request whose key the generation service
\* rejects is a JSON body (status 200) with a list errors that is not empty
\* and whose every entry has a file and an error key
C24_RejectedKeyGivesStructuredErrors ==
    (webPc = "answered" /\ C24_KeyRejected) =>
        LET r == web_response[1]
        IN /\ r.status = 200
           /\ "errors" \in DOMAIN r.body
           /\ r.body.errors # <<>>
           /\ \A i \in 1..Len(r.body.errors) :
                 {"file", "error"} \subseteq DOMAIN r.body.errors[i]

\* C24 happens: a workbook and a CSV were uploaded, every request was
\* rejected, and the answer lists one error for each sheet and one for the CSV
C24_Witness ==
    /\ webPc = "answered"
    /\ C24_KeyRejected
    /\ \E i \in 1..Len(coord_events) :
          /\ coord_events[i].ev = "generate"
          /\ coord_events[i].template = "single_sheet"
    /\ \E i \in 1..Len(coord_events) :
          /\ coord_events[i].ev = "generate"
          /\ coord_events[i].template = "single"
    /\ Len(web_response[1].body.errors) = 3
    /\ \A i \in 1..3 :
          web_response[1].body.errors[i].error = friendly_error_message(KeyRejected)

-----------------------------------------------------------------------------
(* Claims about the error entries *)

C25_HasKey == \E i \in 1..Len(error_msg) : error_msg[i] = "API key not valid"

C25_HasQuota ==
    \E i \in 1..Len(error_msg) : error_msg[i] \in {"quota", "QUOTA", "429"}

C25_HasModel ==
    /\ \E i \in 1..Len(error_msg) : error_msg[i] \in {"not found", "Not Found"}
    /\ \E i \in 1..Len(error_msg) : error_msg[i] \in {"model", "Model"}

\* C25: the error text of an entry is the key message if the raw message
\* contains "API key not valid"; otherwise the quota message if it contains
\* "quota" (any case) or "429"; otherwise the model message if it contains
\* "not found" and "model" (any case); otherwise the raw message
C25_PriorityMapping ==
    error_entry # <<>> =>
        error_entry[1].error =
            IF C25_HasKey THEN <<"API Key khong hop le.">>
            ELSE IF C25_HasQuota THEN QUOTA_MESSAGE
            ELSE IF C25_HasModel
            THEN <<"Model '", model_name, "' khong ton tai hoac khong duoc ho tro.">>
            ELSE error_msg

\* C25 happens: a message that holds both "API key not valid" and "quota"
\* gives the key message
C25_Witness ==
    /\ error_entry # <<>>
    /\ C25_HasKey
    /\ C25_HasQuota
    /\ error_entry[1].error = <<"API Key khong hop le.">>

-----------------------------------------------------------------------------
(* Further claims about the Response Parser *)

\* the steps the parser ran on its response
C26_Steps == CascadeSteps(response_text)

\* the steps run are the first ones of direct parse, fenced block, brace span
C26_FixedOrder == \A k \in 1..Len(C26_Steps) : C26_Steps[k].step = k

\* C26 as stated: the first step that parses wins; once a step has parsed a
\* value, no later step is run and its value is the one used
C26_FirstParsedStepWins ==
    parsePc # "start" =>
        /\ C26_FixedOrder
        /\ \A k \in 1..Len(C26_Steps) :
              C26_Steps[k].ok =>
                 /\ k = Len(C26_Steps)
                 /\ ExtractData(response_text) = C26_Steps[k].data

\* C26, amended: the first step that parses a value that is not empty wins;
\* once a step has parsed a truthy value, no later step is run and its value
\* is the one used, and after a step that failed or parsed null, false, 0,
\* "", [] or {} the next step is run
C26_FirstTruthyStepWins ==
    parsePc # "start" =>
        /\ C26_FixedOrder
        /\ ExtractData(response_text) = C26_Steps[Len(C26_Steps)].data
        /\ \A k \in 1..Len(C26_Steps) :
              IF C26_Steps[k].ok /\ Truthy(C26_Steps[k].data)
              THEN k = Len(C26_Steps)
              ELSE k = 3 \/ k < Len(C26_Steps)

\* C26 happens: the fenced block parses to a value that is not empty, after
\* the direct parse failed, and the brace span is not tried
C26_Witness ==
    /\ parsePc # "start"
    /\ Len(C26_Steps) = 2
    /\ ~C26_Steps[1].ok
    /\ C26_Steps[2].ok
    /\ Truthy(C26_Steps[2].data)


\* the response parses to a structured object that has no files key
C27_ObjectWithoutFiles ==
    /\ ExtractData(response_text).t = "obj"
    /\ "files" \notin ExtractData(response_text).keys

\* the parser wrote exactly one file and returned exactly its path
C27_OneFile ==
    (parsePc # "start" /\ C27_ObjectWithoutFiles) =>
        /\ parsePc = "returned"
        /\ Len(returned) = 1
        /\ Len(writes) = 1
        /\ writes[1].path = returned[1]

\* C27 (as stated): when the response parses to a structured object that has
\* no files key, the parser, single-table or batch, writes exactly one file
\* holding the entire raw text with its code-fence wrapper stripped, and
\* returns exactly that one path
C27_ObjectWithoutFilesOneStrippedFile ==
    (parsePc # "start" /\ C27_ObjectWithoutFiles) =>
        /\ parsePc = "returned"
        /\ Len(returned) = 1
        /\ Len(writes) = 1
        /\ writes[1].path = returned[1]
        /\ writes[1].content.lex = C11_FenceStripped


\* the files list of the parsed response
C28_Files == ExtractData(response_text).m["files"].items

\* the batch parser is given a response whose files list, of well-formed
\* entries, has not as many entries as the batch has sheets
C28_Mismatch ==
    /\ parser = "batch"
    /\ ExtractData(response_text).t = "obj"
    /\ "files" \in ExtractData(response_text).keys
    /\ ExtractData(response_text).m["files"].t = "list"
    /\ \A k \in 1..Len(C28_Files) :
          /\ C28_Files[k].t = "obj"
          /\ C28_Files[k].keys = {"filename", "content"}
          /\ C28_Files[k].m["filename"].t = "str"
          /\ C28_Files[k].m["content"].t = "str"
    /\ Len(C28_Files) # Len(batch_indices)

\* C28: in batch mode a response whose number of files differs from the
\* number of sheets of the batch is not an error: the parser returns, every
\* file of the response with non-empty content is written and returned, in
\* order, and nothing else is (no exception reaches the coordinator, whose
\* per-sheet fallback and error entries need one)
C28_MismatchIsNotAnError ==
    (parsePc # "start" /\ C28_Mismatch) =>
        LET kept == SelectSeq(C28_Files, LAMBDA e : e.m["content"].s # <<>>)
        IN /\ parsePc = "returned"
           /\ parse_exc = "none"
           /\ Len(returned) = Len(kept)
           /\ Len(writes) = Len(kept)
           /\ \A k \in 1..Len(kept) :
                 /\ returned[k] = C10_NormalizedName(kept[k])
                 /\ writes[k].path = returned[k]
                 /\ writes[k].content.lex = kept[k].m["content"].s

\* C28 happens: a batch of two sheets, a response of one file, which is
\* written and returned
C28_Witness ==
    /\ parsePc = "returned"
    /\ C28_Mismatch
    /\ batch_indices = <<0, 1>>
    /\ Len(C28_Files) = 1
    /\ returned = << <<"b", "_", "s", ".", "m", "d">> >>
    /\ Len(writes) = 1

-----------------------------------------------------------------------------
(* Claims about the delays of the Conversion Coordinator *)

C29_IsBatchCall(e) == e.ev = "generate" /\ e.template = "batch"

C29_IsBatchDelay(e) == e.ev = "sleep" /\ e.d = Seconds(batch_delay)

\* C29: while a workbook is converted, the inter-batch delay (batch_delay) is
\* slept exactly once before every batch but the first and never before the
\* first, failed batches or not: every such sleep is followed at once by the
\* request of a batch that is not the first, every such request follows
\* one, and a workbook of b batches that is done has had b - 1 of them
C29_OneDelayBeforeEveryBatchButTheFirst ==
    LET E == CallEvents IN
      /\ \A p \in 1..Len(E) :
            /\ C29_IsBatchCall(E[p]) =>
                  IF E[p].unit = batch_plan[1]
                  THEN p = 1
                  ELSE /\ p > 1
                       /\ C29_IsBatchDelay(E[p - 1])
                       /\ p > 2 => ~C29_IsBatchDelay(E[p - 2])
            /\ C29_IsBatchDelay(E[p]) => (p < Len(E) /\ C29_IsBatchCall(E[p + 1]))
      /\ (coordPc = "file_done" /\ CountIn(E, C29_IsBatchCall) > 0) =>
            /\ CountIn(E, C29_IsBatchCall) = Len(batch_plan)
            /\ CountIn(E, C29_IsBatchDelay) = Len(batch_plan) - 1

\* C29 happens: a workbook of three batches is done, the first batch failed,
\* and two inter-batch delays were slept
C29_Witness ==
    /\ coordPc = "file_done"
    /\ Len(batch_plan) = 3
    /\ CountIn(CallEvents, C29_IsBatchCall) = 3
    /\ ~CallEvents[1].res.ok
    /\ CountIn(CallEvents, C29_IsBatchDelay) = 2


\* C30: the fallback of a failed batch of k sheets sends the sheets of the
\* batch one by one, in order, each with the single-table template, and
\* sleeps 5 s before each of them but the first: the batch call is followed
\* by a request, then k - 1 times a delay and a request, and then by the
\* delay of the next batch; a batch that did not fail has no fallback
C30_FallbackDelaysBetweenSheets ==
    LET E == CallEvents IN
    \A p \in 1..Len(E) :
        (E[p].ev = "generate" /\ E[p].template = "batch") =>
            IF E[p].res.ok
            THEN p < Len(E) => C29_IsBatchDelay(E[p + 1])
            ELSE LET U == E[p].unit
                     n == 2 * Len(U) - 1
                 IN \* the fallback is over: all of it is there
                    /\ (coordPc # "fallback" \/ U # coord_batch_indices)
                          => p + n <= Len(E)
                    /\ \A i \in 1..n :
                          p + i <= Len(E) =>
                             IF i % 2 = 1
                             THEN /\ E[p + i].ev = "generate"
                                  /\ E[p + i].template = "single_sheet"
                                  /\ E[p + i].unit = <<U[(i + 1) \div 2]>>
                             ELSE /\ E[p + i].ev = "sleep"
                                  /\ E[p + i].d = Seconds(sheet_delay)
                    /\ p + n < Len(E) => C29_IsBatchDelay(E[p + n + 1])

\* C30 happens: the fallback of a failed batch of three sheets is over, with
\* three single-table requests and two delays of 5 s
C30_Witness ==
    /\ coordPc = "file_done"
    /\ Len(CallEvents) = 6
    /\ C29_IsBatchCall(CallEvents[1])
    /\ ~CallEvents[1].res.ok
    /\ Len(CallEvents[1].unit) = 3
    /\ CountIn(CallEvents, LAMBDA e : e = SleepEvent(sheet_delay)) = 2
    /\ CountIn(CallEvents, LAMBDA e : e.ev = "generate"
                                      /\ e.template = "single_sheet") = 3

-----------------------------------------------------------------------------
(* Further claims about the Generation Client, checked under SpecGen *)

\* every call so far that failed did so with a rate-limit error that carries
\* no "retry in <n>s" hint
C31_Scenario ==
    \A p \in 1..Len(events) :
        IsFailedCall(p) => (events[p].err.quota /\ events[p].err.retry_in = -1)

\* C31: rate-limit errors without a hint are retried with the default
\* backoff: the calls and the sleeps alternate, the first call has no sleep
\* before it, the sleep before attempt k >= 1 is initial_retry_delay * 2^(k-1)
\* seconds, the attempt counter advances by one per failed call, and the
\* error is propagated after exactly max_retries calls
C31_DefaultBackoff ==
    C31_Scenario =>
        /\ \A i \in 1..Len(events) :
              IF i % 2 = 1
              THEN events[i].ev = "call" /\ events[i].n = (i + 1) \div 2
              ELSE /\ events[i].ev = "sleep"
                   /\ events[i].d = 10 * initial_retry_delay * 2 ^ ((i \div 2) - 1)
        /\ attempt = Cardinality({p \in 1..Len(events) : IsFailedCall(p)})
        /\ NumCalls <= max_retries
        /\ genPc = "raised" =>
              /\ NumCalls = max_retries
              /\ raised_error = <<events[Len(events)].err>>

\* C31 happens: five calls answered by rate-limit errors without a hint,
\* sleeps of 10, 20, 40 and 80 s between them, and the last error raised
C31_Witness ==
    /\ genPc = "raised"
    /\ C31_Scenario
    /\ Len(events) = 9
    /\ events[2].d = 100
    /\ events[4].d = 200
    /\ events[6].d = 400
    /\ events[8].d = 800
    /\ events[9].ev = "call"
    /\ raised_error = <<events[9].err>>

-----------------------------------------------------------------------------
(* Claims about the prompts *)

\* the table read of which the j-th table of the i-th prompt is made
C32_Read(i, j) == IF Len(prompts) > 1 THEN dfs[i] ELSE dfs[j]

\* C32: no table is serialized into a prompt with more than 5000 data rows:
\* in the CSV path, in batch merging and in the fallback a table of more than
\* 5000 rows is cut to its first 5000 rows, a table of at most 5000 rows is
\* passed unchanged, and no error entry is made of it
C32_AtMost5000Rows ==
    /\ \A i \in 1..Len(prompts) : \A j \in 1..Len(prompts[i]) :
          LET t == prompts[i][j]
              df == C32_Read(i, j)
          IN /\ t.to - t.from + 1 <= 5000
             /\ IF df.to - df.from + 1 > 5000
                THEN t.from = df.from /\ t.to = df.from + 4999
                ELSE t = df
    /\ errors = <<>>
    /\ error_entry = <<>>

\* C32 happens: a batch whose first table has 5001 rows and whose second has
\* 5000 is merged into one prompt, with 5000 rows of each
C32_Witness ==
    /\ rowsPc = "done"
    /\ Len(dfs) = 2
    /\ dfs[1] = [from |-> 1, to |-> 5001]
    /\ dfs[2] = [from |-> 1, to |-> 5000]
    /\ prompts = << <<[from |-> 1, to |-> 5000], [from |-> 1, to |-> 5000]>> >>

-----------------------------------------------------------------------------
(* Claims about the files written *)

\* the entries of the response whose content is not empty
C33_Kept == SelectSeq(C10_Entries, LAMBDA e : e.m["content"].s # <<>>)

\* two entries that are written map to the same normalized file name
C33_SameName(a, b) ==
    /\ a < b
    /\ C10_NormalizedName(C33_Kept[a]) = C10_NormalizedName(C33_Kept[b])

\* the entries written under the normalized file name p
C33_Named(p) ==
    {k \in 1..Len(C33_Kept) : C10_NormalizedName(C33_Kept[k]) = p}

\* C33: when two entries written in one run map to the same normalized file
\* name, the later write replaces the earlier one without any error: the
\* parser returns, the output directory holds under that name one file, with
\* the content of the last entry of that name (the second of the two when
\* they are the only ones), and the returned list names the path once per
\* entry, that is twice for the two
C33_SecondWriteReplacesFirst ==
    (parsePc # "start" /\ C10_FilesListResponse) =>
        \A a, b \in 1..Len(C33_Kept) :
            C33_SameName(a, b) =>
                LET p == C10_NormalizedName(C33_Kept[b])
                    N == C33_Named(p)
                    last == CHOOSE k \in N : \A j \in N : j <= k
                IN /\ parsePc = "returned"
                   /\ parse_exc = "none"
                   /\ p \in DOMAIN OutputDir(writes)
                   /\ OutputDir(writes)[p].lex = C33_Kept[last].m["content"].s
                   /\ N = {a, b} => OutputDir(writes)[p].lex
                                      = C33_Kept[b].m["content"].s
                   /\ CountIn(returned, LAMBDA r : r = p) = Cardinality(N)
                   /\ N = {a, b} => CountIn(returned, LAMBDA r : r = p) = 2
                   /\ returned[a] = p
                   /\ returned[b] = p

\* C33 happens: the entries s.md with content c and s with content d are
\* both written to s.md, which holds d, and s.md is returned twice
C33_Witness ==
    /\ parsePc = "returned"
    /\ parser = "single"
    /\ C10_FilesListResponse
    /\ Len(C10_Entries) = 2
    /\ C10_Entries[1].m["filename"].s = <<"s", ".", "m", "d">>
    /\ C10_Entries[1].m["content"].s = <<"c">>
    /\ C10_Entries[2].m["filename"].s = <<"s">>
    /\ C10_Entries[2].m["content"].s = <<"d">>
    /\ returned = << <<"s", ".", "m", "d">>, <<"s", ".", "m", "d">> >>
    /\ DOMAIN OutputDir(writes) = {<<"s", ".", "m", "d">>}
    /\ OutputDir(writes)[<<"s", ".", "m", "d">>].lex = <<"d">>

-----------------------------------------------------------------------------
(* Claims about the Batch Planner, checked under SpecPlanner (continued) *)

\* the batch b with the table i added is over one of the two limits
C34_WouldNotFit(b, i) ==
    \/ BatchCost(Append(b, i)) > max_tokens_per_batch
    \/ Len(b) + 1 > max_batch_size

\* C34: the Batch Planner is greedy-maximal: for every two consecutive
\* batches, the earlier batch with the first table of the later one added
\* would cost more than max_tokens_per_batch or hold more than max_batch_size
\* tables; hence tables that all fit within both limits are one single batch
C34_GreedyMaximal ==
    planPc = "done" =>
        /\ \A k \in 1..(Len(batches) - 1) :
              C34_WouldNotFit(batches[k], batches[k + 1][1])
        /\ (/\ sheets_data # <<>>
            /\ Len(sheets_data) <= max_batch_size
            /\ BatchCost([k \in 1..Len(sheets_data) |-> k - 1])
                 <= max_tokens_per_batch)
              => batches = << [k \in 1..Len(sheets_data) |-> k - 1] >>

\* C34 happens: the first batch was closed on the budget while it had room
\* for another table, and the two tables after it fit into one batch
C34_Witness ==
    /\ planPc = "done"
    /\ Len(batches) = 2
    /\ Len(batches[2]) = 2
    /\ BatchCost(Append(batches[1], batches[2][1])) > max_tokens_per_batch
    /\ Len(batches[1]) + 1 <= max_batch_size

\* C34 happens on the other limit: the first batch was closed on its size
\* while the budget had room for the next table
C34_WitnessClosedOnSize ==
    /\ planPc = "done"
    /\ Len(batches) = 2
    /\ BatchCost(Append(batches[1], batches[2][1])) <= max_tokens_per_batch
    /\ Len(batches[1]) + 1 > max_batch_size

\* C34, the scenario of the specification: three small sheets and a budget
\* large enough for all three give the one batch [0,1,2]
C34_WitnessOneBatch ==
    /\ planPc = "done"
    /\ Len(sheets_data) = 3
    /\ max_batch_size >= 3
    /\ batches = << <<0, 1, 2>> >>

-----------------------------------------------------------------------------
(* Claims about convert_file and its retry loops, checked under SpecCalls *)

\* the positions of the API calls of the running batch, or of the CSV
C35_Calls == {p \in 1..Len(events) : events[p].ev = "call"}

\* C35: the number of generation API calls is bounded: the request of a batch
\* of k sheets and its per-sheet fallback make at most max_retries * (1 + k)
\* calls, max_retries at most for the batch and for each sheet, and a CSV
\* file makes at most max_retries calls; a sheet is sent individually only
\* after the request of its batch has failed, and is a sheet of that batch
C35_ApiCallsBounded ==
    LET C == C35_Calls
        B == {p \in C : events[p].template = "batch"}
    IN /\ file_path.ext = ".csv" =>
             /\ Cardinality(C) <= max_retries
             /\ \A p \in C : events[p].template = CsvTemplate
       /\ file_path.ext # ".csv" =>
             /\ \A p, q \in B : events[p].unit = events[q].unit
             /\ Cardinality(B) <= max_retries
             /\ \A p \in B :
                   Cardinality(C) <= max_retries * (1 + Len(events[p].unit))
             /\ \A p \in C \ B :
                   /\ events[p].template = "single_sheet"
                   /\ Len(events[p].unit) = 1
                   /\ Cardinality({q \in C \ B : events[q].unit = events[p].unit})
                        <= max_retries
                   /\ \A q \in B : ~events[q].ok
                   /\ \E q \in B :
                         /\ q < p
                         /\ \E j \in 1..Len(events[q].unit) :
                               events[q].unit[j] = events[p].unit[1]

\* C35 happens: the request of a batch of two sheets and the requests of its
\* two sheets have all met the rate limit max_retries times, which makes
\* max_retries * 3 calls, and convert_file has returned
C35_Witness ==
    /\ coordPc = "file_done"
    /\ batch_plan = << <<0, 1>> >>
    /\ Cardinality(C35_Calls) = max_retries * 3
    /\ Len(errors) = 2

\* C35 happens for a CSV file: max_retries calls, and the entry of the file
C35_WitnessCsv ==
    /\ coordPc = "file_done"
    /\ file_path.ext = ".csv"
    /\ Cardinality(C35_Calls) = max_retries
    /\ Len(errors) = 1

\* C36: convert_file always terminates: whatever the file and however the
\* generation service behaves, the retry loops, the loop over the batches and
\* the per-sheet fallback finish, and the pair (created_files, errors) is
\* returned in the end
C36_ConvertFileTerminates == <>(coordPc = "file_done" /\ genPc = "idle")

\* C36 happens: every API call of a workbook of two batches has met the rate
\* limit, each of the four generate calls has used all its attempts, and
\* convert_file has returned with the entries of the two sheets
C36_Witness ==
    /\ coordPc = "file_done"
    /\ genPc = "idle"
    /\ batch_plan = << <<0>>, <<1>> >>
    /\ Len(errors) = 2
    /\ created_files = <<>>
    /\ Cardinality(C35_Calls) = max_retries * 2
    /\ \A p \in C35_Calls : ~events[p].ok

-----------------------------------------------------------------------------
(* Claims about the Generation Client, checked under SpecGen (continued) *)

\* the last allowed attempt, number max_retries - 1 of the loop, has failed
C37_LastAttemptFailed(p) == IsFailedCall(p) /\ events[p].n = max_retries

\* nothing is slept after the failure of the last allowed attempt unless the
\* error is a rate-limit error that carries the wait the service asks for
C37_NoSleepAfterLastAttemptUnlessHint ==
    \A p \in 1..Len(events) :
        (C37_LastAttemptFailed(p)
           /\ ~(IsRateLimit(events[p].err) /\ wait_match(events[p].err)))
          => p = Len(events)

\* C37 (as stated): the Generation Client never sleeps after its last allowed
\* attempt: once attempt number max_retries - 1 has failed, with any kind of
\* error, a rate-limit error carrying a "retry in <n>s" hint included, the
\* error is propagated without any further delay
C37_NoSleepAfterLastAttempt ==
    \A p \in 1..Len(events) : C37_LastAttemptFailed(p) => p = Len(events)

-----------------------------------------------------------------------------
(* Claims about the files written and reported *)

\* the paths of the files the parser has written
C38_Written == {writes[i].path : i \in 1..Len(writes)}

\* the paths the parser has returned, which convert_file adds to created_files
C38_Reported == {returned[i] : i \in 1..Len(returned)}

\* a parser that ends without an exception in its try block reports every file
\* it has written
C38_ReportedWhenNoException ==
    (parsePc = "returned" /\ parser = "batch" /\ BatchTry(response_text).exc = "none")
        => C38_Written \subseteq C38_Reported

\* C38 (as stated): every file written to the output directory appears in
\* the returned list of created files, in particular when the batch parser
\* hits an exception after having written some entries of the response and
\* falls back on the single-file save
C38_EveryWrittenFileReported ==
    (parsePc = "returned" /\ parser = "batch")
        => C38_Written \subseteq C38_Reported

\* the batch parser is given a response that no step of the cascade parses
C39_Unparseable ==
    /\ parser = "batch"
    /\ \A k \in 1..Len(CascadeSteps(response_text)) :
          ~CascadeSteps(response_text)[k].ok

\* C39: the batch parser never raises, so a batch response that was received
\* starts no per-sheet fallback and makes no error entry; a response that
\* cannot be parsed as structured output is saved whole as the one file
\* <base_name>_batch_<first sheet index>.md, the only path returned
C39_UnparseableBatchSavedWhole ==
    (parsePc # "start" /\ parser = "batch") =>
        /\ parsePc = "returned"
        /\ parse_exc = "none"
        /\ C39_Unparseable =>
              /\ Len(writes) = 1
              /\ writes[1].path = base_name \o BATCH_ \o Digit(batch_indices[1]) \o MD
              /\ returned = <<writes[1].path>>

\* C39 happens: the batch parser got for the batch [0, 1] a text that is not
\* JSON, and returned b_batch_0.md
C39_Witness ==
    /\ parsePc = "returned"
    /\ parser = "batch"
    /\ batch_indices = <<0, 1>>
    /\ C39_Unparseable
    /\ response_text.lex # <<>>
    /\ returned = << <<"b", "_", "b", "a", "t", "c", "h", "_", "0", ".", "m", "d">> >>

\* a parser that was given a structured object whose files list has entries
\* with content gives a path or an exception
C40_PathOrExceptionWhenContent ==
    (/\ parsePc # "start"
     /\ C10_FilesListResponse
     /\ C33_Kept # <<>>) => (parsePc = "raised" \/ returned # <<>>)

\* C40 (as stated): no generation unit is lost silently: the parser of every
\* batch, fallback sheet and CSV gives convert_file at least one created file
\* path, or an exception that becomes an error entry, also when the response
\* is a structured object whose files list is empty or whose entries all
\* have empty content
C40_NoUnitLostSilently ==
    parsePc # "start" => (parsePc = "raised" \/ returned # <<>>)

=============================================================================
